---- MODULE Spec2Model ----
(***************************************************************************)
(* Orb: zero-trust folder tunnelling.  A model of the relay's session      *)
(* manager (package session), the handshake and tunnel set-up (packages    *)
(* crypto and tunnel) and the sandboxed filesystem (package filesystem).   *)
(*                                                                         *)
(* Each subsystem has its own specification over the module's variables:   *)
(*   SpecSession   the session manager under validate / touch / revoke /   *)
(*                 sweep and the passing of time                           *)
(*   SpecTunnel    session creation at the relay, the two NewTunnel calls  *)
(*                 and the relay's forwarders                              *)
(*   SpecFS        the secure filesystem's operations on a small tree      *)
(*   SpecManager   CreateSession's id loop among the manager's methods     *)
(*   SpecRelay     one session's connections at the relay, with time, the  *)
(*                 sweeper and the stale-pair monitor                      *)
(*   SpecPairs     the connections of two sessions at the relay            *)
(*   SpecAead      the sealed records of one tunnel direction              *)
(*   SpecShare     the sharer's request loop over the filesystem           *)
(*   SpecRoot      delete and rename requests naming the export root       *)
(*   SpecRead      Read's offset and length arithmetic                     *)
(*   SpecFrame     frame sizes through the codec and the tunnel            *)
(*   SpecLock      one tunnel's methods called from two goroutines         *)
(*   SpecBrowser   the connector's file browser and its commands           *)
(*   SpecNoise     the methods of one handshake object                     *)
(*   SpecGoroutines  the relay's goroutines on one pair and their locks    *)
(*   SpecValidate  ValidatePasscode's lock and deferred functions          *)
(* A specification leaves the variables of the other subsystems unchanged. *)
(***************************************************************************)
EXTENDS Integers, Sequences, FiniteSets, TLC

(***************************************************************************)
(* Time.  The clock counts units of 30 minutes, the idle limit of the      *)
(* sweeper (part_014:233); the session timeout of 24 h (part_014:16) is 48 *)
(* units.  The sweeper's ticker period (5 min, part_014:224) is shorter    *)
(* than a unit, so the sweeper runs at least once in every unit.           *)
(***************************************************************************)
SessionTimeout == 48
IdleTimeout == 1
MaxFailedAttempts == 5

\* Bounds of the session model.
MaxTime == 50
MaxCreateTime == 1

\* Session ids GenerateSessionID may return, and an id it never returned.
SessionIDs == {"7F9Q2A"}
UnknownID == "ZZZZZZ"
AllIDs == SessionIDs \cup {UnknownID}

\* Passcodes are strings, modelled as tuples of characters.
\* GeneratePasscode returns strings of one fixed length.
GenPasscodes == {<<4, 9>>, <<7, 1>>}
InputPasscodes == GenPasscodes \cup {<<4>>, <<9, 4>>}

VARIABLES
    sessions,   \* SessionManager.sessions: map id -> Session
    now,        \* time.Now(), in units of 30 minutes
    swept,      \* the sweeper has run since the clock last advanced
    lastCall,   \* the last ValidatePasscode call and what it returned
    wrongRun    \* per held session: the wrong-passcode calls in a row since its
                \* creation or last successful validation; stays at 5 once reached

sessVars == <<sessions, now, swept, lastCall, wrongRun>>

VARIABLES
    tree,       \* the sharer host's filesystem: canonical path -> node
    readOnly,   \* SecureFilesystem.readOnly
    fsOps,      \* number of mutating requests served so far
    lastFs      \* the last filesystem request: what it returned and touched

fsVars == <<tree, readOnly, fsOps, lastFs>>

VARIABLES
    creds,      \* what createSession returned to the sharer: session id, passcode
    peer,       \* per peer: where its NewTunnel call stands and what it holds
    pair,       \* RelayServer.connections[id]: the session's ConnectionPair
    fwd,        \* per connection: its forwardMessages goroutine
    wire,       \* per connection: messages towards the relay (up) and the peer (down)
    net         \* whether a frame was altered on the path / dropped by the relay

tunVars == <<creds, peer, pair, fwd, wire, net>>

VARIABLES
    connections, \* RelayServer.connections: session id -> ConnectionPair
    conn,        \* per websocket connection of the relay: its two ends and queues
    lastRelay    \* the last step of a relay handler, forwarder or monitor

relVars == <<connections, conn, lastRelay>>

VARIABLES
    mu,         \* the sending tunnel's t.mu: the goroutine holding it, or "none"
    closed,     \* the sending tunnel's t.closed
    nonce,      \* t.sendCipher.nonce, the send counter
    call,       \* per goroutine: where its SendFrame call stands
    sends,      \* number of SendFrame calls made so far
    written,    \* the records written to the websocket, in write order
    opened,     \* the records the peer's ReceiveFrame accepted, in order
    lastRecv    \* the last ReceiveFrame of the peer: the record and the error

aeadVars == <<mu, closed, nonce, call, sends, written, opened, lastRecv>>

VARIABLES
    loop,       \* handleShareRequests: "receiving", or "returned"
    link,       \* the sharer's websocket: "up", or "failed" after a read error
    rounds,     \* number of rounds of the request loop so far
    lastShare,  \* the last round: ReceiveFrame's error, the frame, the reply
    arrived,    \* the rounds in which ReceiveFrame returned a frame, in order
    replies     \* the SendFrame calls of the loop: the round, the reply's type, the error

shareVars == <<loop, link, rounds, lastShare, arrived, replies>>

VARIABLES
    frameLog    \* the frames handed to WriteFrame / ReadFrame / SendFrame /
                \* ReceiveFrame so far: payload size and the error returned

frameVars == <<frameLog>>

VARIABLES
    thread,     \* per goroutine: the tunnel method it is in and where
    closes,     \* number of conn.Close() calls made by Tunnel.Close
    connIO,     \* number of ReadMessage / WriteMessage calls on the connection
    ret,        \* per goroutine: what its last tunnel call returned
    calls       \* number of tunnel calls made so far

lockVars == <<thread, closes, connIO, ret, calls>>

VARIABLES
    model,      \* the browser's model m as the program holds it
    cmd,        \* per command slot: the command's kind and position
    toSharer,   \* requests sent and not yet answered by the sharer
    fromSharer, \* responses sent by the sharer and not yet received
    nreq,       \* number of requests sent so far
    ticks,      \* download-reset ticks under way
    lastGot     \* the last response received: by which command, for which request

browserVars == <<model, cmd, toSharer, fromSharer, nreq, ticks, lastGot>>

VARIABLES
    hs,         \* the NoiseHandshake object
    hsDone,     \* the methods of the object that have returned nil
    hsLast,     \* the last method called on it and its error
    noiseCalls  \* number of method calls made on it

noiseVars == <<hs, hsDone, hsLast, noiseCalls>>

VARIABLES
    gpc,        \* per relay goroutine: where it is
    rsmu,       \* rs.mu: the goroutine holding it for writing, those reading
    pairmu,     \* pair.mu: the goroutine holding it
    smmu,       \* sm.mu of the session manager: writer and readers
    table,      \* rs.connections holds the session's pair
    slot,       \* pair.Sharer / pair.Receiver is not nil
    open,       \* the sharer's / receiver's connection has not been closed
    cancelled   \* rs.cancel() has been called

gorVars == <<gpc, rsmu, pairmu, smmu, table, slot, open, cancelled>>

VARIABLES
    vpc,         \* per goroutine: where it is in its call of the manager
    vmu,         \* sm.mu: the goroutine holding it
    deferred,    \* per goroutine: the functions deferred, in the order deferred
    vargs,       \* per goroutine: the arguments of its call
    validations  \* number of ValidatePasscode calls made

valVars == <<vpc, vmu, deferred, vargs, validations>>

moreVars == <<noiseVars, gorVars, valVars>>

appVars == <<shareVars, frameVars, lockVars, browserVars, moreVars>>

vars == <<sessVars, fsVars, tunVars, relVars, aeadVars, appVars>>

NoCall == [op |-> "none"]

ErrAuth == "authentication failed"
ErrLocked == "session locked due to too many failed attempts"
ErrExpired == "session expired"
Nil == "nil"

(***************************************************************************)
(* package session                                                         *)
(***************************************************************************)

\* constantTimeStringCompare: equal lengths and no differing byte.
constantTimeStringCompare(a, b) ==
    IF Len(a) # Len(b) THEN FALSE
    ELSE \A i \in 1..Len(a) : a[i] = b[i]

\* The Session record CreateSession builds (SharedPath and ConnectedPeer are
\* never read and are left out).
NewSession(id, pc, t) ==
    [ID |-> id, Passcode |-> pc, Created |-> t, LastActivity |-> t,
     FailedAttempts |-> 0, Locked |-> FALSE, Active |-> TRUE]

\* The map with key id removed / set.
MapDelete(m, id) == [k \in DOMAIN m \ {id} |-> m[k]]
MapPut(m, id, v) == [k \in DOMAIN m \cup {id} |-> IF k = id THEN v ELSE m[k]]

\* CreateSession's effect on the map: the id loop re-rolls until the id is
\* not a key, so the id stored is one the map does not hold.
CreateSessionMap(m, id, pc, t) == MapPut(m, id, NewSession(id, pc, t))

\* ValidatePasscode without the check of the Locked flag.
ValidatePasscodeBody_NoLockedCheck(m, id, pc, t) ==
    IF id \notin DOMAIN m THEN [m |-> m, err |-> ErrAuth]
    ELSE IF t - m[id].Created > SessionTimeout
        THEN [m |-> MapDelete(m, id), err |-> ErrExpired]
    ELSE IF ~constantTimeStringCompare(m[id].Passcode, pc)
        THEN LET fa == m[id].FailedAttempts + 1 IN
             IF fa >= MaxFailedAttempts
             THEN [m |-> [m EXCEPT ![id].FailedAttempts = fa, ![id].Locked = TRUE],
                   err |-> ErrLocked]
             ELSE [m |-> [m EXCEPT ![id].FailedAttempts = fa], err |-> ErrAuth]
    ELSE [m |-> [m EXCEPT ![id].FailedAttempts = 0, ![id].LastActivity = t],
          err |-> Nil]

\* ValidatePasscode locking only once the counter has passed the cap.
ValidatePasscodeBody_LockPastCap(m, id, pc, t) ==
    IF id \notin DOMAIN m THEN [m |-> m, err |-> ErrAuth]
    ELSE IF m[id].Locked THEN [m |-> m, err |-> ErrLocked]
    ELSE IF t - m[id].Created > SessionTimeout
        THEN [m |-> MapDelete(m, id), err |-> ErrExpired]
    ELSE IF ~constantTimeStringCompare(m[id].Passcode, pc)
        THEN LET fa == m[id].FailedAttempts + 1 IN
             IF fa > MaxFailedAttempts
             THEN [m |-> [m EXCEPT ![id].FailedAttempts = fa, ![id].Locked = TRUE],
                   err |-> ErrLocked]
             ELSE [m |-> [m EXCEPT ![id].FailedAttempts = fa], err |-> ErrAuth]
    ELSE [m |-> [m EXCEPT ![id].FailedAttempts = 0, ![id].LastActivity = t],
          err |-> Nil]

\* ValidatePasscode's body: the map after the call and the error returned.
ValidatePasscodeBody(m, id, pc, t) ==
    IF id \notin DOMAIN m THEN [m |-> m, err |-> ErrAuth]
    ELSE IF m[id].Locked THEN [m |-> m, err |-> ErrLocked]
    ELSE IF t - m[id].Created > SessionTimeout
        THEN [m |-> MapDelete(m, id), err |-> ErrExpired]
    ELSE IF ~constantTimeStringCompare(m[id].Passcode, pc)
        THEN LET fa == m[id].FailedAttempts + 1 IN
             IF fa >= MaxFailedAttempts
             THEN [m |-> [m EXCEPT ![id].FailedAttempts = fa, ![id].Locked = TRUE],
                   err |-> ErrLocked]
             ELSE [m |-> [m EXCEPT ![id].FailedAttempts = fa], err |-> ErrAuth]
    ELSE [m |-> [m EXCEPT ![id].FailedAttempts = 0, ![id].LastActivity = t],
          err |-> Nil]

\* The sweeper looking at the idle time alone.
SweepExpired_IdleOnly(s, t) == t - s.LastActivity > IdleTimeout

\* The sweeper's loop body: which sessions one run removes.
SweepExpired(s, t) ==
    t - s.Created > SessionTimeout \/ t - s.LastActivity > IdleTimeout

cleanupExpiredMap(m, t) ==
    [k \in {i \in DOMAIN m : ~SweepExpired(m[i], t)} |-> m[k]]

\* wrongRun over the sessions the map holds after a step.
RunAfter(m2, f) == [k \in DOMAIN m2 |-> f[k]]

CreateSession(id, pc) ==
    /\ id \notin DOMAIN sessions
    /\ now <= MaxCreateTime
    /\ sessions' = CreateSessionMap(sessions, id, pc, now)
    /\ wrongRun' = [k \in DOMAIN sessions' |-> IF k = id THEN 0 ELSE wrongRun[k]]
    /\ lastCall' = NoCall
    /\ UNCHANGED <<now, swept, fsVars, tunVars, relVars, aeadVars, appVars>>

ValidatePasscode(id, pc) ==
    LET r == ValidatePasscodeBody(sessions, id, pc, now) IN
    /\ sessions' = r.m
    /\ lastCall' = [op |-> "ValidatePasscode", id |-> id, pc |-> pc, err |-> r.err]
    /\ wrongRun' = [k \in DOMAIN r.m |->
                      IF k # id \/ wrongRun[k] >= MaxFailedAttempts THEN wrongRun[k]
                      ELSE IF pc = sessions[id].Passcode THEN 0
                      ELSE wrongRun[k] + 1]
    /\ UNCHANGED <<now, swept, fsVars, tunVars, relVars, aeadVars, appVars>>

UpdateActivity(id) ==
    /\ sessions' = IF id \in DOMAIN sessions
                   THEN [sessions EXCEPT ![id].LastActivity = now]
                   ELSE sessions
    /\ lastCall' = NoCall
    /\ UNCHANGED <<now, swept, wrongRun, fsVars, tunVars, relVars, aeadVars, appVars>>

RevokeSession(id) ==
    /\ id \in DOMAIN sessions
    /\ sessions' = MapDelete(sessions, id)
    /\ wrongRun' = RunAfter(sessions', wrongRun)
    /\ lastCall' = NoCall
    /\ UNCHANGED <<now, swept, fsVars, tunVars, relVars, aeadVars, appVars>>

\* One run of the sweeper's loop body (one tick of its ticker).
cleanupExpired ==
    /\ sessions' = cleanupExpiredMap(sessions, now)
    /\ wrongRun' = RunAfter(sessions', wrongRun)
    /\ swept' = TRUE
    /\ lastCall' = [op |-> "cleanupExpired",
                    removed |-> {sessions[k] : k \in DOMAIN sessions \ DOMAIN sessions'}]
    /\ UNCHANGED <<now, fsVars, tunVars, relVars, aeadVars, appVars>>

\* 30 minutes pass; the sweeper has run at least once during them.
Tick ==
    /\ swept
    /\ now < MaxTime
    /\ now' = now + 1
    /\ swept' = FALSE
    /\ lastCall' = NoCall
    /\ UNCHANGED <<sessions, wrongRun, fsVars, tunVars, relVars, aeadVars, appVars>>


(***************************************************************************)
(* package crypto                                                          *)
(*                                                                         *)
(* Keys, hashes and ciphertexts are terms: a hash is the tuple of what was *)
(* written into it, a ciphertext carries the key it was sealed under and   *)
(* opens only under an equal key, and an X25519 shared secret is the       *)
(* unordered pair of the two private keys.  Random values (ephemeral keys, *)
(* challenges) are named after the peer that drew them.                    *)
(***************************************************************************)

ErrAuthFailed == "authentication failed"
ErrLowOrder == "invalid shared secret: low-order point"
ErrDecryptionFailed == "decryption failed"
ErrNotComplete == "handshake not complete"

NoKey == << >>
NoAuthData == [challenge |-> << >>, proof |-> << >>]

\* A point of low order and a key pair of somebody on the path.
LowOrderPoint == <<"pub", "low-order">>
AttackerPub == <<"pub", "attacker">>

\* DeriveKey: Argon2id of the passcode, salted with the session id.
DeriveKey(passcode, sessionID) == <<"argon2id", passcode, sessionID>>

GenerateX25519KeyPair(owner) == [Private |-> owner, Public |-> <<"pub", owner>>]

\* ComputeSharedSecret: X25519, rejecting the all-zero result.
ComputeSharedSecret(privateKey, publicKey) ==
    IF publicKey = LowOrderPoint
    THEN [err |-> ErrLowOrder, secret |-> NoKey]
    ELSE [err |-> Nil, secret |-> <<"x25519", {privateKey, publicKey[2]}>>]

\* AEAD.Encrypt / AEAD.Decrypt with the cipher's key.
Encrypt(key, plaintext) == [key |-> key, plain |-> plaintext]

Decrypt(key, ciphertext) ==
    IF ciphertext.key = key
    THEN [err |-> Nil, plain |-> ciphertext.plain]
    ELSE [err |-> ErrDecryptionFailed, plain |-> NoAuthData]

\* The handshake object before NewNoiseHandshake and after Cleanup.
NoHandshake ==
    [localEphemeral |-> [Private |-> "", Public |-> NoKey], remoteEphemeral |-> NoKey,
     presharedKey |-> NoKey, initiator |-> FALSE, handshakeHash |-> << >>]

updateHash(handshakeHash, data) == <<"sha256", handshakeHash, data>>

deriveKey(nh, secret, info) == <<"sha256", nh.handshakeHash, secret, info>>

computeAuthProof(nh, challenge) ==
    [challenge |-> challenge,
     proof |-> <<"sha256", nh.handshakeHash, nh.presharedKey, challenge>>]

verifyAuthProof(nh, authData) ==
    authData.proof = <<"sha256", nh.handshakeHash, nh.presharedKey, authData.challenge>>

NewNoiseHandshake(presharedKey, initiator, owner) ==
    [localEphemeral |-> GenerateX25519KeyPair(owner), remoteEphemeral |-> NoKey,
     presharedKey |-> presharedKey, initiator |-> initiator,
     handshakeHash |-> updateHash(<< >>, presharedKey)]

\* The handshake after the remote ephemeral key of a message is taken in.
TakeRemote(nh, message) ==
    [nh EXCEPT !.remoteEphemeral = message.eph,
               !.handshakeHash = updateHash(@, message.eph)]

\* The handshake after the local ephemeral key is written into the hash.
MixLocal(nh) ==
    [nh EXCEPT !.handshakeHash = updateHash(@, nh.localEphemeral.Public)]

\* CreateInitiatorMessage: ephemeral public key || proof sealed under the
\* preshared key.
CreateInitiatorMessage(nh, challenge) ==
    LET nh1 == MixLocal(nh) IN
    [nh |-> nh1, err |-> Nil,
     msg |-> [eph |-> nh.localEphemeral.Public,
              enc |-> Encrypt(nh.presharedKey, computeAuthProof(nh1, challenge))]]

\* ProcessInitiatorMessage without the check of the proof.
ProcessInitiatorMessage_NoProofCheck(nh, message) ==
    LET nh1 == TakeRemote(nh, message)
        d == Decrypt(nh.presharedKey, message.enc)
    IN  IF d.err # Nil THEN [nh |-> nh1, err |-> ErrAuthFailed]
        ELSE [nh |-> nh1, err |-> Nil]

\* ProcessInitiatorMessage (responder side).
ProcessInitiatorMessage(nh, message) ==
    LET nh1 == TakeRemote(nh, message)
        d == Decrypt(nh.presharedKey, message.enc)
    IN  IF d.err # Nil THEN [nh |-> nh1, err |-> ErrAuthFailed]
        ELSE IF ~verifyAuthProof(nh1, d.plain) THEN [nh |-> nh1, err |-> ErrAuthFailed]
        ELSE [nh |-> nh1, err |-> Nil]

\* CreateResponderMessage: ephemeral public key || proof sealed under a key
\* derived from the shared secret and the hash.
CreateResponderMessage(nh, challenge) ==
    LET nh1 == MixLocal(nh)
        ss == ComputeSharedSecret(nh.localEphemeral.Private, nh.remoteEphemeral)
    IN  IF ss.err # Nil
        THEN [nh |-> nh1, err |-> ss.err,
              msg |-> [eph |-> NoKey, enc |-> Encrypt(NoKey, NoAuthData)]]
        ELSE [nh |-> nh1, err |-> Nil,
              msg |-> [eph |-> nh.localEphemeral.Public,
                       enc |-> Encrypt(deriveKey(nh1, ss.secret, "responder"),
                                       computeAuthProof(nh1, challenge))]]

\* ProcessResponderMessage (initiator side).
ProcessResponderMessage(nh, message) ==
    LET nh1 == TakeRemote(nh, message)
        ss == ComputeSharedSecret(nh.localEphemeral.Private, message.eph)
    IN  IF ss.err # Nil THEN [nh |-> nh1, err |-> ss.err]
        ELSE LET d == Decrypt(deriveKey(nh1, ss.secret, "responder"), message.enc) IN
             IF d.err # Nil THEN [nh |-> nh1, err |-> ErrAuthFailed]
             ELSE IF ~verifyAuthProof(nh1, d.plain)
                  THEN [nh |-> nh1, err |-> ErrAuthFailed]
             ELSE [nh |-> nh1, err |-> Nil]

\* DeriveTransportKeys with the same label order on both sides.
DeriveTransportKeys_SameLabels(nh) ==
    LET ss == ComputeSharedSecret(nh.localEphemeral.Private, nh.remoteEphemeral) IN
    IF nh.remoteEphemeral = NoKey
    THEN [err |-> ErrNotComplete, sendKey |-> NoKey, recvKey |-> NoKey]
    ELSE IF ss.err # Nil THEN [err |-> ss.err, sendKey |-> NoKey, recvKey |-> NoKey]
    ELSE [err |-> Nil,
          sendKey |-> deriveKey(nh, ss.secret, "initiator_to_responder"),
          recvKey |-> deriveKey(nh, ss.secret, "responder_to_initiator")]

\* DeriveTransportKeys: the initiator sends under initiator_to_responder
\* and receives under responder_to_initiator; the responder the opposite.
DeriveTransportKeys(nh) ==
    LET ss == ComputeSharedSecret(nh.localEphemeral.Private, nh.remoteEphemeral) IN
    IF nh.remoteEphemeral = NoKey
    THEN [err |-> ErrNotComplete, sendKey |-> NoKey, recvKey |-> NoKey]
    ELSE IF ss.err # Nil THEN [err |-> ss.err, sendKey |-> NoKey, recvKey |-> NoKey]
    ELSE IF nh.initiator
    THEN [err |-> Nil,
          sendKey |-> deriveKey(nh, ss.secret, "initiator_to_responder"),
          recvKey |-> deriveKey(nh, ss.secret, "responder_to_initiator")]
    ELSE [err |-> Nil,
          sendKey |-> deriveKey(nh, ss.secret, "responder_to_initiator"),
          recvKey |-> deriveKey(nh, ss.secret, "initiator_to_responder")]

(***************************************************************************)
(* package tunnel, the relay (HandleCreateSession, HandleShare,            *)
(* HandleConnect, forwardMessages) and the commands share and connect      *)
(*                                                                         *)
(* The sharer runs "orb share": createSession, then NewTunnel as the       *)
(* responder.  The connector runs "orb connect": NewTunnel as the          *)
(* initiator.  A connection is named after the peer that dialled it.       *)
(***************************************************************************)

FrameTypeHandshake == 1
FrameTypeHandshakeResp == 2

MaxAppFrames == 1

Peers == {"sharer", "connector"}

ErrDial == "failed to connect to relay"
ErrFrame == "invalid frame"
ErrFrameType == "unexpected frame type"
ErrTimeout == "i/o timeout"
ErrConnClosed == "connection closed"

\* connect.go passes isInitiator = true, share.go false.
IsInitiator(p) == p = "connector"

\* NewTunnel: the initiator dials /share, the responder /connect.
Endpoint(p) == IF IsInitiator(p) THEN "share" ELSE "connect"

Other(p) == CHOOSE q \in Peers : q # p

\* The challenge computeAuthProof draws.
Challenge(p) == <<"rand", p>>

NoCreds == [id |-> "", passcode |-> << >>]

NoSeen == [type |-> FALSE, dec |-> FALSE, proof |-> FALSE]

IdlePeer ==
    [state |-> "idle", psk |-> NoKey, nh |-> NoHandshake, transcript |-> << >>,
     sendCipher |-> NoKey, recvCipher |-> NoKey, err |-> Nil, connOpen |-> FALSE,
     seen |-> NoSeen, appSent |-> 0, appAccepted |-> 0]

NoPair == [exists |-> FALSE, Sharer |-> "none", Receiver |-> "none"]

\* A raw handshake frame (protocol.WriteFrame) and a sealed application
\* frame (AEAD output) as websocket messages.
RawFrame(type, msg) == [kind |-> "frame", type |-> type, eph |-> msg.eph, enc |-> msg.enc]
SealedFrame(key, payload) == [kind |-> "sealed", enc |-> Encrypt(key, payload)]

\* SessionManager.UpdateActivity on the map.
UpdateActivityMap(m, id, t) ==
    IF id \in DOMAIN m THEN [m EXCEPT ![id].LastActivity = t] ELSE m

\* HandleShare / HandleConnect: the connection goes into its slot of the
\* session's pair, which is created when absent.
InstallConn(pr, endpoint, c) ==
    IF endpoint = "share"
    THEN [exists |-> TRUE, Sharer |-> c, Receiver |-> pr.Receiver]
    ELSE [exists |-> TRUE, Sharer |-> pr.Sharer, Receiver |-> c]

\* forwardMessages: the connection a message read from conn goes to.
ForwardTarget(pr, isSharer) == IF isSharer THEN pr.Receiver ELSE pr.Sharer

\* cleanupConnection: the slot is emptied; the pair goes when both are.
cleanupConnectionPair(pr, isSharer) ==
    IF ~pr.exists THEN pr
    ELSE LET q == IF isSharer THEN [pr EXCEPT !.Sharer = "none"]
                  ELSE [pr EXCEPT !.Receiver = "none"]
         IN  IF q.Sharer = "none" /\ q.Receiver = "none" THEN NoPair ELSE q

\* NewTunnel's error path: the connection is closed, no tunnel is returned;
\* the deferred Cleanup wipes the handshake object.
Failed(pe, err) ==
    [pe EXCEPT !.state = "failed", !.err = err, !.connOpen = FALSE,
               !.nh = NoHandshake]

\* setupTransportKeys, then NewTunnel returns the tunnel.
setupTransportKeys(pe, nh) ==
    LET k == DeriveTransportKeys(nh) IN
    IF k.err # Nil THEN Failed(pe, k.err)
    ELSE [pe EXCEPT !.state = "established", !.nh = NoHandshake,
                    !.transcript = nh.handshakeHash,
                    !.sendCipher = k.sendKey, !.recvCipher = k.recvKey]

\* performInitiatorHandshake from the received frame on.
performInitiatorHandshakeOn(pe, frame) ==
    IF frame.kind # "frame" THEN Failed(pe, ErrFrame)
    ELSE IF frame.type # FrameTypeHandshakeResp THEN Failed(pe, ErrFrameType)
    ELSE LET r == ProcessResponderMessage(pe.nh, frame) IN
         IF r.err # Nil THEN Failed(pe, r.err)
         ELSE setupTransportKeys(pe, r.nh)

\* performResponderHandshake from the received frame on: [peer, out], out
\* being the frames sent.
performResponderHandshakeOn(pe, frame, challenge) ==
    IF frame.kind # "frame" THEN [peer |-> Failed(pe, ErrFrame), out |-> << >>]
    ELSE IF frame.type # FrameTypeHandshake
    THEN [peer |-> Failed(pe, ErrFrameType), out |-> << >>]
    ELSE LET r == ProcessInitiatorMessage(pe.nh, frame) IN
         IF r.err # Nil THEN [peer |-> Failed(pe, r.err), out |-> << >>]
         ELSE LET c == CreateResponderMessage(r.nh, challenge) IN
              IF c.err # Nil THEN [peer |-> Failed(pe, c.err), out |-> << >>]
              ELSE [peer |-> setupTransportKeys(pe, c.nh),
                    out |-> <<RawFrame(FrameTypeHandshakeResp, c.msg)>>]

\* What a peer's handshake message shows when checked by hand: its frame
\* type, whether it opens under the key the receiver holds, and whether its
\* proof is the receiver's.
Examine(nh, frame) ==
    IF frame.kind # "frame" THEN NoSeen
    ELSE LET nh1 == TakeRemote(nh, frame)
             ss == ComputeSharedSecret(nh.localEphemeral.Private, frame.eph)
             key == IF ~nh.initiator THEN nh.presharedKey
                    ELSE IF ss.err # Nil THEN <<"none">>
                    ELSE deriveKey(nh1, ss.secret, "responder")
             d == Decrypt(key, frame.enc)
         IN  [type |-> frame.type = IF nh.initiator THEN FrameTypeHandshakeResp
                                     ELSE FrameTypeHandshake,
              dec |-> d.err = Nil,
              proof |-> d.err = Nil /\ verifyAuthProof(nh1, d.plain)]

\* The relay takes a session-creation request: the manager stores the new
\* session and the response carries its id and passcode, which createSession
\* hands to runShare.
HandleCreateSession(id, pc) ==
    /\ creds = NoCreds
    /\ id \notin DOMAIN sessions
    /\ sessions' = CreateSessionMap(sessions, id, pc, now)
    /\ wrongRun' = [k \in DOMAIN sessions' |-> IF k = id THEN 0 ELSE wrongRun[k]]
    /\ lastCall' = NoCall
    /\ creds' = [id |-> sessions'[id].ID, passcode |-> sessions'[id].Passcode]
    /\ UNCHANGED <<now, swept, peer, pair, fwd, wire, net, fsVars, relVars, aeadVars, appVars>>

\* NewTunnel up to the start of the handshake: the key is derived, the
\* relay's endpoint is dialled (HandleShare / HandleConnect refuse an unknown
\* session, else install the connection and start its forwarder) and the
\* handshake object is made.  The sharer uses what createSession returned,
\* the connector what its user typed.
NewTunnelDial(p, id, pc) ==
    /\ peer[p].state = "idle"
    /\ IF IsInitiator(p) THEN TRUE ELSE creds # NoCreds /\ id = creds.id /\ pc = creds.passcode
    /\ LET psk == DeriveKey(pc, id) IN
       IF id \notin DOMAIN sessions
       THEN /\ peer' = [peer EXCEPT ![p] = [Failed(@, ErrDial) EXCEPT !.psk = psk]]
            /\ UNCHANGED <<pair, fwd, sessions>>
       ELSE /\ peer' = [peer EXCEPT ![p] =
                          [@ EXCEPT !.state = IF IsInitiator(p) THEN "dialed" ELSE "awaitInit",
                                    !.psk = psk, !.connOpen = TRUE,
                                    !.nh = NewNoiseHandshake(psk, IsInitiator(p), p)]]
            /\ pair' = InstallConn(pair, Endpoint(p), p)
            /\ fwd' = [fwd EXCEPT ![p] = "running"]
            /\ sessions' = [UpdateActivityMap(sessions, id, now) EXCEPT
                              ![id].Active = IF Endpoint(p) = "share" THEN TRUE ELSE @]
    /\ UNCHANGED <<now, swept, lastCall, wrongRun, creds, wire, net, fsVars, relVars, aeadVars, appVars>>

\* performInitiatorHandshake: the initiator message is made and sent.
performInitiatorHandshakeSend(p) ==
    /\ IsInitiator(p)
    /\ peer[p].state = "dialed"
    /\ LET c == CreateInitiatorMessage(peer[p].nh, Challenge(p)) IN
       /\ peer' = [peer EXCEPT ![p].nh = c.nh, ![p].state = "awaitResp"]
       /\ wire' = [wire EXCEPT ![p].up = Append(@, RawFrame(FrameTypeHandshake, c.msg))]
    /\ UNCHANGED <<sessVars, creds, pair, fwd, net, fsVars, relVars, aeadVars, appVars>>

\* performInitiatorHandshake: the response arrives and is processed; on
\* success the transport keys are set up and NewTunnel returns the tunnel.
performInitiatorHandshakeRecv(p) ==
    /\ IsInitiator(p)
    /\ peer[p].state = "awaitResp"
    /\ wire[p].down # << >>
    /\ LET frame == Head(wire[p].down) IN
       peer' = [peer EXCEPT ![p] =
                  [performInitiatorHandshakeOn(@, frame) EXCEPT
                     !.seen = Examine(peer[p].nh, frame)]]
    /\ wire' = [wire EXCEPT ![p].down = Tail(@)]
    /\ UNCHANGED <<sessVars, creds, pair, fwd, net, fsVars, relVars, aeadVars, appVars>>

\* performResponderHandshake: the initiator message arrives and is
\* processed, the response is sent, the transport keys are set up and
\* NewTunnel returns the tunnel.
performResponderHandshake(p) ==
    /\ ~IsInitiator(p)
    /\ peer[p].state = "awaitInit"
    /\ wire[p].down # << >>
    /\ LET frame == Head(wire[p].down)
           r == performResponderHandshakeOn(peer[p], frame, Challenge(p))
       IN  /\ peer' = [peer EXCEPT ![p] =
                         [r.peer EXCEPT !.seen = Examine(peer[p].nh, frame)]]
           /\ wire' = [wire EXCEPT ![p].down = Tail(@), ![p].up = @ \o r.out]
    /\ UNCHANGED <<sessVars, creds, pair, fwd, net, fsVars, relVars, aeadVars, appVars>>

\* recvRawFrame: the read deadline (handshakeReadTimeout) passes with
\* nothing to read.
HandshakeTimeout(p) ==
    /\ peer[p].state \in {"awaitInit", "awaitResp"}
    /\ wire[p].down = << >>
    /\ peer' = [peer EXCEPT ![p] = Failed(@, ErrTimeout)]
    /\ UNCHANGED <<sessVars, creds, pair, fwd, wire, net, fsVars, relVars, aeadVars, appVars>>

\* recvRawFrame: the relay has closed the connection.
ConnReadError(p) ==
    /\ peer[p].state \in {"awaitInit", "awaitResp"}
    /\ fwd[p] = "exited"
    /\ wire[p].down = << >>
    /\ peer' = [peer EXCEPT ![p] = Failed(@, ErrConnClosed)]
    /\ UNCHANGED <<sessVars, creds, pair, fwd, wire, net, fsVars, relVars, aeadVars, appVars>>

\* Tunnel.SendFrame by the holder of an established tunnel.
SendFrame(p) ==
    /\ peer[p].state = "established"
    /\ peer[p].appSent < MaxAppFrames
    /\ peer' = [peer EXCEPT ![p].appSent = @ + 1]
    /\ wire' = [wire EXCEPT ![p].up = Append(@, SealedFrame(peer[p].sendCipher, "request"))]
    /\ UNCHANGED <<sessVars, creds, pair, fwd, net, fsVars, relVars, aeadVars, appVars>>

\* Tunnel.ReceiveFrame: a message is read; it is accepted when it opens
\* under the receive cipher.
ReceiveFrame(p) ==
    /\ peer[p].state = "established"
    /\ wire[p].down # << >>
    /\ LET m == Head(wire[p].down) IN
       peer' = [peer EXCEPT ![p].appAccepted =
                  IF Decrypt(peer[p].recvCipher, m.enc).err = Nil THEN @ + 1 ELSE @]
    /\ wire' = [wire EXCEPT ![p].down = Tail(@)]
    /\ UNCHANGED <<sessVars, creds, pair, fwd, net, fsVars, relVars, aeadVars, appVars>>

\* Tunnel.Close.
Close(p) ==
    /\ peer[p].state = "established"
    /\ peer' = [peer EXCEPT ![p].state = "closed", ![p].connOpen = FALSE]
    /\ UNCHANGED <<sessVars, creds, pair, fwd, wire, net, fsVars, relVars, aeadVars, appVars>>

\* One round of forwardMessages for connection p: a message is read and
\* written to the other slot's connection when there is one, else it is
\* gone.  A write to a connection its peer has closed may fail, which ends
\* the forwarder: it closes p and cleans up.
forwardMessages(p, writeOk) ==
    /\ fwd[p] = "running"
    /\ wire[p].up # << >>
    /\ LET m == Head(wire[p].up)
           isSharer == Endpoint(p) = "share"
           target == ForwardTarget(pair, isSharer)
           id == creds.id
       IN  IF ~pair.exists
           THEN /\ fwd' = [fwd EXCEPT ![p] = "exited"]
                /\ wire' = [wire EXCEPT ![p].up = Tail(@)]
                /\ UNCHANGED <<pair, net, sessions>>
           ELSE IF target = "none"
           THEN /\ writeOk
                /\ wire' = [wire EXCEPT ![p].up = Tail(@)]
                /\ net' = [net EXCEPT !.dropped = TRUE]
                /\ sessions' = UpdateActivityMap(sessions, id, now)
                /\ UNCHANGED <<pair, fwd>>
           ELSE IF peer[target].connOpen
           THEN /\ writeOk
                /\ wire' = [wire EXCEPT ![p].up = Tail(@), ![target].down = Append(@, m)]
                /\ sessions' = UpdateActivityMap(sessions, id, now)
                /\ UNCHANGED <<pair, fwd, net>>
           ELSE IF writeOk
           THEN /\ wire' = [wire EXCEPT ![p].up = Tail(@)]
                /\ sessions' = UpdateActivityMap(sessions, id, now)
                /\ UNCHANGED <<pair, fwd, net>>
           ELSE /\ wire' = [wire EXCEPT ![p].up = Tail(@)]
                /\ fwd' = [fwd EXCEPT ![p] = "exited"]
                /\ pair' = cleanupConnectionPair(pair, isSharer)
                /\ UNCHANGED <<net, sessions>>
    /\ UNCHANGED <<now, swept, lastCall, wrongRun, creds, peer, fsVars, relVars, aeadVars, appVars>>

\* forwardMessages for connection p ends on a read error: the peer has
\* closed the connection and nothing is left to read.
forwardExit(p) ==
    /\ fwd[p] = "running"
    /\ ~peer[p].connOpen
    /\ wire[p].up = << >>
    /\ fwd' = [fwd EXCEPT ![p] = "exited"]
    /\ pair' = cleanupConnectionPair(pair, Endpoint(p) = "share")
    /\ UNCHANGED <<sessVars, creds, peer, wire, net, fsVars, relVars, aeadVars, appVars>>

\* Somebody on the path alters the handshake frame about to reach p: its
\* type, its ephemeral key, or its ciphertext.
Tamper(p, how) ==
    /\ ~net.tampered
    /\ wire[p].down # << >>
    /\ Head(wire[p].down).kind = "frame"
    /\ LET m == Head(wire[p].down)
           m2 == CASE how = "type" ->
                        [m EXCEPT !.type = IF @ = FrameTypeHandshake
                                           THEN FrameTypeHandshakeResp
                                           ELSE FrameTypeHandshake]
                   [] how = "eph" -> [m EXCEPT !.eph = AttackerPub]
                   [] how = "low" -> [m EXCEPT !.eph = LowOrderPoint]
                   [] OTHER -> [m EXCEPT !.enc = Encrypt(<<"garbage">>, NoAuthData)]
       IN  wire' = [wire EXCEPT ![p].down = <<m2>> \o Tail(@)]
    /\ net' = [net EXCEPT !.tampered = TRUE]
    /\ UNCHANGED <<sessVars, creds, peer, pair, fwd, fsVars, relVars, aeadVars, appVars>>

TamperKinds == {"type", "eph", "low", "enc"}

\* The tunnel variables while another subsystem runs.
TunIdle ==
    /\ creds = NoCreds
    /\ peer = [p \in Peers |-> IdlePeer]
    /\ pair = NoPair
    /\ fwd = [p \in Peers |-> "none"]
    /\ wire = [p \in Peers |-> [up |-> << >>, down |-> << >>]]
    /\ net = [tampered |-> FALSE, dropped |-> FALSE]

(***************************************************************************)
(* package filesystem                                                      *)
(*                                                                         *)
(* A host path is the sequence of its component names, << >> being "/".    *)
(* A request path is [abs, segs]: whether it starts with a separator, and  *)
(* its segments, which may be "." and "..".  The host tree maps the path   *)
(* of every existing object to [kind |-> "dir"], [kind |-> "file", data]   *)
(* or [kind |-> "link", target] (symlink targets are absolute paths).      *)
(***************************************************************************)

\* Bounds of the filesystem model.
MaxFsOps == 2
MaxSymlinkHops == 3

\* The text of a component name, character by character.
NameText ==
    [s |-> <<"s">>, sx |-> <<"s", "x">>, o |-> <<"o">>, f |-> <<"f">>,
     g |-> <<"g">>, l |-> <<"l">>, n |-> <<"n">>, p |-> <<"p">>, x |-> <<"x">>]

\* fs.rootPath: the export root /s.  /sx is a sibling whose text starts with
\* the root's text; /o is elsewhere on the host.
rootPath == <<"s">>

Abs(segs) == [abs |-> TRUE, segs |-> segs]
Rel(segs) == [abs |-> FALSE, segs |-> segs]

\* The request paths the connector sends.
Requests ==
    {Abs(<< >>), Abs(<<"f">>), Rel(<<"g">>), Rel(<<"l">>), Abs(<<"l", "p">>),
     Abs(<<"..", "sx", "x">>), Rel(<<"..", "sx", "x">>), Rel(<<"..", "o", "p">>),
     Abs(<<"g", "..", "f">>)}

\* Where the symlink /s/l may point when the share starts: outside to a file
\* that does not exist yet, outside to a file, outside to a directory, and
\* inside.
LinkTargets == {<<"o", "n">>, <<"o", "p">>, <<"o">>, <<"s", "f">>}

ErrPathTraversal == "path traversal attempt detected"
ErrInvalidPath == "invalid path"
ErrPermissionDenied == "permission denied"
ErrOs == "os error"

DirNode == [kind |-> "dir"]
FileNode(d) == [kind |-> "file", data |-> d]
LinkNode(t) == [kind |-> "link", target |-> t]

\* filepath.Clean on the segments: "." goes, ".." removes the element before
\* it, a ".." at the start of a rooted path goes, one at the start of a
\* relative path stays.
RECURSIVE CleanAcc(_, _, _)
CleanAcc(abs, segs, acc) ==
    IF segs = << >> THEN acc
    ELSE LET h == Head(segs)
             t == Tail(segs)
         IN  IF h = "." THEN CleanAcc(abs, t, acc)
             ELSE IF h = ".."
                  THEN IF Len(acc) > 0 /\ acc[Len(acc)] # ".."
                       THEN CleanAcc(abs, t, SubSeq(acc, 1, Len(acc) - 1))
                       ELSE IF abs THEN CleanAcc(abs, t, acc)
                       ELSE CleanAcc(abs, t, Append(acc, ".."))
             ELSE CleanAcc(abs, t, Append(acc, h))

Clean(p) == [abs |-> p.abs, segs |-> CleanAcc(p.abs, p.segs, << >>)]

\* strings.TrimPrefix(cleaned, "/"): a rooted path becomes relative.
TrimPrefixSeparator(p) == [abs |-> FALSE, segs |-> p.segs]

\* filepath.Join(root, rel) == Clean(root + "/" + rel), root being absolute.
Join(root, rel) == CleanAcc(TRUE, root \o rel.segs, << >>)

Dir(path) == IF path = << >> THEN << >> ELSE SubSeq(path, 1, Len(path) - 1)
Base(path) == IF path = << >> THEN << >> ELSE <<path[Len(path)]>>

\* The text of a host path, as the characters of the Go string.
RECURSIVE PathChars(_)
PathChars(path) ==
    IF path = << >> THEN << >>
    ELSE <<"/">> \o NameText[Head(path)] \o PathChars(Tail(path))

PathText(path) == IF path = << >> THEN <<"/">> ELSE PathChars(path)

\* strings.HasPrefix on the two texts.
HasPrefix(str, prefix) ==
    Len(prefix) <= Len(str) /\ SubSeq(str, 1, Len(prefix)) = prefix

\* strings.HasPrefix(resolved, fs.rootPath)
WithinRoot(resolved) == HasPrefix(PathText(resolved), PathText(rootPath))

\* filepath.EvalSymlinks: walk the components from "/", following every
\* symlink; fails on a missing component, on a component below a file and
\* after too many links.
RECURSIVE Walk(_, _, _, _)
Walk(t, cur, rest, fuel) ==
    IF rest = << >> THEN [ok |-> TRUE, path |-> cur]
    ELSE LET next == Append(cur, Head(rest)) IN
         IF next \notin DOMAIN t THEN [ok |-> FALSE, path |-> << >>]
         ELSE IF t[next].kind = "link"
              THEN IF fuel = 0 THEN [ok |-> FALSE, path |-> << >>]
                   ELSE Walk(t, << >>, t[next].target \o Tail(rest), fuel - 1)
         ELSE IF t[next].kind = "file" /\ Tail(rest) # << >>
              THEN [ok |-> FALSE, path |-> << >>]
         ELSE Walk(t, next, Tail(rest), fuel)

EvalSymlinks(t, path) == Walk(t, << >>, path, MaxSymlinkHops)

\* sanitizePath: the error and the resolved path returned.
sanitizePath(t, path) ==
    LET cleaned == TrimPrefixSeparator(Clean(path))
        fullPath == Join(rootPath, cleaned)
        r1 == EvalSymlinks(t, fullPath)
        r2 == EvalSymlinks(t, Dir(fullPath))
        resolved == IF r1.ok THEN r1.path ELSE r2.path \o Base(fullPath)
    IN  IF ~r1.ok /\ ~r2.ok THEN [err |-> ErrInvalidPath, path |-> << >>]
        ELSE IF ~WithinRoot(resolved) THEN [err |-> ErrPathTraversal, path |-> << >>]
        ELSE [err |-> Nil, path |-> resolved]

\* The objects at path p and below it.
Subtree(t, p) ==
    {q \in DOMAIN t : Len(q) >= Len(p) /\ SubSeq(q, 1, Len(p)) = p}

Children(t, p) == {q \in DOMAIN t : Len(q) = Len(p) + 1 /\ Dir(q) = p}

\* The result of an operation: its error, the tree after it, and the objects
\* it read, created, modified or deleted (as they are named after symlink
\* evaluation).
Result(err, t, touched) == [err |-> err, tree |-> t, touched |-> touched]

\* os.ReadDir / os.Stat / os.Open on a path: all follow symlinks.
OsOpen(t, sp) ==
    LET r == EvalSymlinks(t, sp) IN
    IF r.ok THEN Result(Nil, t, {r.path}) ELSE Result(ErrOs, t, {})

\* Where open(2) with O_CREATE lands: the existing object, or the new file,
\* which a dangling symlink in the last component redirects to its target.
RECURSIVE CreateTarget(_, _, _)
CreateTarget(t, sp, fuel) ==
    LET r == EvalSymlinks(t, sp)
        pr == EvalSymlinks(t, Dir(sp))
        leaf == pr.path \o Base(sp)
    IN  IF r.ok THEN [ok |-> t[r.path].kind = "file", path |-> r.path]
        ELSE IF sp = << >> \/ ~pr.ok THEN [ok |-> FALSE, path |-> << >>]
        ELSE IF t[pr.path].kind # "dir" THEN [ok |-> FALSE, path |-> << >>]
        ELSE IF leaf \notin DOMAIN t THEN [ok |-> TRUE, path |-> leaf]
        ELSE IF t[leaf].kind = "link" /\ fuel > 0
             THEN CreateTarget(t, t[leaf].target, fuel - 1)
        ELSE [ok |-> FALSE, path |-> << >>]

\* file.Seek(offset) then file.Write(data) on a file's content.
WriteAt(old, offset, data) ==
    [i \in 1..(IF offset + Len(data) > Len(old) THEN offset + Len(data) ELSE Len(old)) |->
        IF i > offset /\ i <= offset + Len(data) THEN data[i - offset]
        ELSE IF i <= Len(old) THEN old[i] ELSE 0]

\* os.OpenFile(sp, O_CREATE|O_WRONLY, 0644), Seek, Write.
OsWrite(t, sp, offset, data) ==
    LET c == CreateTarget(t, sp, MaxSymlinkHops) IN
    IF ~c.ok THEN Result(ErrOs, t, {})
    ELSE LET old == IF c.path \in DOMAIN t THEN t[c.path].data ELSE << >>
         IN  Result(Nil, MapPut(t, c.path, FileNode(WriteAt(old, offset, data))),
                    {c.path})

\* os.RemoveAll(sp): the object named sp (a symlink is not followed) and all
\* below it; no error when nothing is there.
OsRemoveAll(t, sp) ==
    LET gone == Subtree(t, sp) IN
    Result(Nil, [q \in DOMAIN t \ gone |-> t[q]], gone)

\* os.Rename(old, new): moves the object named old (and all below it) to the
\* name new, replacing a file by a file or an empty directory by a directory.
OsRename(t, old, new) ==
    LET moved == Subtree(t, old)
        Target(q) == new \o SubSeq(q, Len(old) + 1, Len(q))
        ok == /\ old \in DOMAIN t
              /\ new # << >>
              /\ Dir(new) \in DOMAIN t /\ t[Dir(new)].kind = "dir"
              /\ ~(Len(new) > Len(old) /\ SubSeq(new, 1, Len(old)) = old)
              /\ new \in DOMAIN t =>
                    IF t[old].kind = "dir"
                    THEN t[new].kind = "dir" /\ Children(t, new) = {}
                    ELSE t[new].kind # "dir"
        kept == DOMAIN t \ (moved \cup {new})
    IN  IF ~ok THEN Result(ErrOs, t, {})
        ELSE IF old = new THEN Result(Nil, t, {})
        ELSE Result(Nil,
                    [q \in kept \cup {Target(m) : m \in moved} |->
                        IF q \in kept THEN t[q]
                        ELSE t[CHOOSE m \in moved : Target(m) = q]],
                    moved \cup {Target(m) : m \in moved})

\* os.MkdirAll(sp): nothing to do for a directory; otherwise the missing
\* directories are made, which fails where a name is taken by something else.
RECURSIVE OsMkdirAll(_, _, _)
OsMkdirAll(t, sp, fuel) ==
    LET r == EvalSymlinks(t, sp) IN
    IF r.ok THEN (IF t[r.path].kind = "dir" THEN Result(Nil, t, {})
                  ELSE Result(ErrOs, t, {}))
    ELSE IF sp = << >> \/ fuel = 0 THEN Result(ErrOs, t, {})
    ELSE LET up == OsMkdirAll(t, Dir(sp), fuel - 1)
             pr == EvalSymlinks(up.tree, Dir(sp))
             leaf == pr.path \o Base(sp)
         IN  IF up.err # Nil \/ ~pr.ok \/ leaf \in DOMAIN up.tree
             THEN Result(ErrOs, up.tree, up.touched)
             ELSE Result(Nil, MapPut(up.tree, leaf, DirNode),
                         up.touched \cup {leaf})

\* The SecureFilesystem methods: error, tree after, objects touched.
FsList(t, path) ==
    LET sp == sanitizePath(t, path) IN
    IF sp.err # Nil THEN Result(sp.err, t, {}) ELSE
    LET o == OsOpen(t, sp.path) IN
    IF o.err = Nil /\ \A q \in o.touched : t[q].kind # "dir"
    THEN Result(ErrOs, t, o.touched) ELSE o

FsStat(t, path) ==
    LET sp == sanitizePath(t, path) IN
    IF sp.err # Nil THEN Result(sp.err, t, {}) ELSE OsOpen(t, sp.path)

FsRead(t, path) ==
    LET sp == sanitizePath(t, path) IN
    IF sp.err # Nil THEN Result(sp.err, t, {}) ELSE
    LET o == OsOpen(t, sp.path) IN
    IF o.err = Nil /\ \A q \in o.touched : t[q].kind # "file"
    THEN Result(ErrOs, t, o.touched) ELSE o

\* Write without its read-only test.
FsWrite_NoReadOnly(t, ro, path, offset, data) ==
    LET sp == sanitizePath(t, path) IN
    IF sp.err # Nil THEN Result(sp.err, t, {})
    ELSE OsWrite(t, sp.path, offset, data)

FsWrite(t, ro, path, offset, data) ==
    IF ro THEN Result(ErrPermissionDenied, t, {}) ELSE
    LET sp == sanitizePath(t, path) IN
    IF sp.err # Nil THEN Result(sp.err, t, {})
    ELSE OsWrite(t, sp.path, offset, data)

\* Delete without its test for the root.
FsDelete_NoRootCheck(t, ro, path) ==
    IF ro THEN Result(ErrPermissionDenied, t, {}) ELSE
    LET sp == sanitizePath(t, path) IN
    IF sp.err # Nil THEN Result(sp.err, t, {})
    ELSE OsRemoveAll(t, sp.path)

FsDelete(t, ro, path) ==
    IF ro THEN Result(ErrPermissionDenied, t, {}) ELSE
    LET sp == sanitizePath(t, path) IN
    IF sp.err # Nil THEN Result(sp.err, t, {})
    ELSE IF sp.path = rootPath THEN Result("cannot delete root directory", t, {})
    ELSE OsRemoveAll(t, sp.path)

FsRename(t, ro, oldPath, newPath) ==
    IF ro THEN Result(ErrPermissionDenied, t, {}) ELSE
    LET so == sanitizePath(t, oldPath)
        sn == sanitizePath(t, newPath)
    IN  IF so.err # Nil THEN Result(so.err, t, {})
        ELSE IF sn.err # Nil THEN Result(sn.err, t, {})
        ELSE IF so.path = rootPath \/ sn.path = rootPath
             THEN Result("cannot rename root directory", t, {})
        ELSE OsRename(t, so.path, sn.path)

FsMkdir(t, ro, path) ==
    IF ro THEN Result(ErrPermissionDenied, t, {}) ELSE
    LET sp == sanitizePath(t, path) IN
    IF sp.err # Nil THEN Result(sp.err, t, {})
    ELSE OsMkdirAll(t, sp.path, Len(sp.path))

\* The paths sanitizePath accepted among those a request named.
Accepted(t, paths) ==
    {sanitizePath(t, p).path : p \in {q \in paths : sanitizePath(t, q).err = Nil}}

\* What lastFs keeps of a served request: the method, its error, the
\* resolved paths sanitizePath returned for it and the objects it touched.
Served(op, r, sanitized) ==
    [op |-> op, err |-> r.err, touched |-> r.touched, accepted |-> sanitized]

List(path) ==
    /\ lastFs' = Served("list", FsList(tree, path), Accepted(tree, {path}))
    /\ UNCHANGED <<tree, fsOps, readOnly, sessVars, tunVars, relVars, aeadVars, appVars>>

Stat(path) ==
    /\ lastFs' = Served("stat", FsStat(tree, path), Accepted(tree, {path}))
    /\ UNCHANGED <<tree, fsOps, readOnly, sessVars, tunVars, relVars, aeadVars, appVars>>

Read(path) ==
    /\ lastFs' = Served("read", FsRead(tree, path), Accepted(tree, {path}))
    /\ UNCHANGED <<tree, fsOps, readOnly, sessVars, tunVars, relVars, aeadVars, appVars>>

Write(path, offset, data) ==
    /\ fsOps < MaxFsOps
    /\ LET r == FsWrite(tree, readOnly, path, offset, data) IN
       /\ tree' = r.tree
       /\ lastFs' = Served("write", r,
                           IF readOnly THEN {} ELSE Accepted(tree, {path}))
    /\ fsOps' = fsOps + 1
    /\ UNCHANGED <<readOnly, sessVars, tunVars, relVars, aeadVars, appVars>>

Delete(path) ==
    /\ fsOps < MaxFsOps
    /\ LET r == FsDelete(tree, readOnly, path) IN
       /\ tree' = r.tree
       /\ lastFs' = Served("delete", r,
                           IF readOnly THEN {} ELSE Accepted(tree, {path}))
    /\ fsOps' = fsOps + 1
    /\ UNCHANGED <<readOnly, sessVars, tunVars, relVars, aeadVars, appVars>>

Rename(oldPath, newPath) ==
    /\ fsOps < MaxFsOps
    /\ LET r == FsRename(tree, readOnly, oldPath, newPath) IN
       /\ tree' = r.tree
       /\ lastFs' = Served("rename", r,
                           IF readOnly THEN {}
                           ELSE Accepted(tree, {oldPath, newPath}))
    /\ fsOps' = fsOps + 1
    /\ UNCHANGED <<readOnly, sessVars, tunVars, relVars, aeadVars, appVars>>

Mkdir(path) ==
    /\ fsOps < MaxFsOps
    /\ LET r == FsMkdir(tree, readOnly, path) IN
       /\ tree' = r.tree
       /\ lastFs' = Served("mkdir", r,
                           IF readOnly THEN {} ELSE Accepted(tree, {path}))
    /\ fsOps' = fsOps + 1
    /\ UNCHANGED <<readOnly, sessVars, tunVars, relVars, aeadVars, appVars>>

(***************************************************************************)
(* The relay with several sessions and connections (SpecRelay)             *)
(*                                                                         *)
(* connections is RelayServer.connections: session id -> ConnectionPair.   *)
(* A websocket connection is named c1, c2, ... in the order of upgrade;    *)
(* conn keeps, per connection, the session and endpoint it joined, whether *)
(* its client and the relay still hold it open, its forwarder, the         *)
(* messages its client has sent that the relay has not read (up) and the   *)
(* messages the relay has written to it (got).  The clock is the session   *)
(* manager's: one unit is 30 minutes, the monitor's staleness limit.       *)
(***************************************************************************)

ConnIDs == <<"c1", "c2", "c3">>
MaxMsgs == 2
MaxRelayTime == 2
StaleLimit == 1

NoConn == [sess |-> "", isSharer |-> FALSE, client |-> "none", relay |-> "none",
           fwd |-> "none", up |-> << >>, got |-> << >>, sent |-> 0]

NoRelayStep == [op |-> "none", conn |-> "none", sess |-> "", to |-> "none", n |-> 0,
                status |-> 0]

\* The connection the next upgrade yields.
Unused == {i \in 1..Len(ConnIDs) : conn[ConnIDs[i]].client = "none"}
NextConn == ConnIDs[CHOOSE i \in Unused : \A j \in Unused : i <= j]

\* A connection both ends still hold open.
Connected(cs, c) == cs[c].client = "open" /\ cs[c].relay = "open"

\* HandleShare / HandleConnect on the table: a pair is made when the
\* session has none, else the endpoint's slot is overwritten.  lastSeen is
\* not a field of the code: it keeps the time of the pair's last activity.
JoinPair(tbl, id, isSharer, c, t) ==
    IF id \notin DOMAIN tbl
    THEN MapPut(tbl, id, [Sharer |-> IF isSharer THEN c ELSE "none",
                          Receiver |-> IF isSharer THEN "none" ELSE c,
                          lastPing |-> t, lastSeen |-> t])
    ELSE IF isSharer THEN [tbl EXCEPT ![id].Sharer = c, ![id].lastSeen = t]
    ELSE [tbl EXCEPT ![id].Receiver = c, ![id].lastSeen = t]

\* forwardMessages writing back to the slot the message came from.
RelayTarget_SameSlot(pr, isSharer) == IF isSharer THEN pr.Sharer ELSE pr.Receiver

\* forwardMessages: the slot a message read from a sharer / receiver
\* connection is written to.
RelayTarget(pr, isSharer) == IF isSharer THEN pr.Receiver ELSE pr.Sharer

\* cleanupConnection emptying the slot in every pair of the table.
cleanupConnection_AllPairs(tbl, id, isSharer) ==
    LET cleared == [k \in DOMAIN tbl |->
                      IF isSharer THEN [tbl[k] EXCEPT !.Sharer = "none"]
                      ELSE [tbl[k] EXCEPT !.Receiver = "none"]]
    IN  [k \in {i \in DOMAIN tbl : cleared[i].Sharer # "none" \/ cleared[i].Receiver # "none"}
            |-> cleared[k]]

\* cleanupConnection: the slot of the endpoint is emptied in the session's
\* pair, and the pair is deleted when both slots are empty.
cleanupConnection(tbl, id, isSharer) ==
    IF id \notin DOMAIN tbl THEN tbl
    ELSE LET pr == IF isSharer THEN [tbl[id] EXCEPT !.Sharer = "none"]
                   ELSE [tbl[id] EXCEPT !.Receiver = "none"]
         IN  IF pr.Sharer = "none" /\ pr.Receiver = "none"
             THEN MapDelete(tbl, id)
             ELSE MapPut(tbl, id, pr)

\* monitorConnections: the pairs one run of the monitor removes.
Stale(tbl, t) == {id \in DOMAIN tbl : t - tbl[id].lastPing > StaleLimit}

\* HandleShare / HandleConnect for ?session=id: 404 for a session the
\* manager does not hold; else the upgrade, the connection installed in the
\* pair, its forwarder started and the session's activity updated.
HandleJoin(op, id, isSharer) ==
    IF id \notin DOMAIN sessions
    THEN /\ lastRelay' = [op |-> op, conn |-> "none", sess |-> id, to |-> "none",
                          n |-> 0, status |-> 404]
         /\ UNCHANGED <<connections, conn, sessions>>
    ELSE /\ Unused # {}
         /\ LET c == NextConn IN
            /\ connections' = JoinPair(connections, id, isSharer, c, now)
            /\ conn' = [conn EXCEPT ![c] = [NoConn EXCEPT !.sess = id, !.isSharer = isSharer,
                                              !.client = "open", !.relay = "open",
                                              !.fwd = "running"]]
            /\ lastRelay' = [op |-> op, conn |-> c, sess |-> id, to |-> "none",
                             n |-> 0, status |-> 101]
         /\ sessions' = [UpdateActivityMap(sessions, id, now) EXCEPT
                           ![id].Active = IF isSharer THEN TRUE ELSE @]

HandleShare(id) ==
    /\ HandleJoin("HandleShare", id, TRUE)
    /\ UNCHANGED <<now, swept, lastCall, wrongRun, fsVars, tunVars, aeadVars, appVars>>

HandleConnect(id) ==
    /\ HandleJoin("HandleConnect", id, FALSE)
    /\ UNCHANGED <<now, swept, lastCall, wrongRun, fsVars, tunVars, aeadVars, appVars>>

\* The number of messages the clients of the first i connections have sent.
RECURSIVE SentUpTo(_)
SentUpTo(i) == IF i = 0 THEN 0 ELSE conn[ConnIDs[i]].sent + SentUpTo(i - 1)

\* The client of connection c sends a message.
ClientSend(c) ==
    /\ conn[c].client = "open"
    /\ SentUpTo(Len(ConnIDs)) < MaxMsgs
    /\ conn' = [conn EXCEPT ![c].sent = @ + 1,
                            ![c].up = Append(@, [from |-> c, n |-> conn[c].sent + 1])]
    /\ UNCHANGED <<sessVars, connections, lastRelay, fsVars, tunVars, aeadVars, appVars>>

\* The client of connection c closes it.
ClientClose(c) ==
    /\ conn[c].client = "open"
    /\ conn' = [conn EXCEPT ![c].client = "closed"]
    /\ UNCHANGED <<sessVars, connections, lastRelay, fsVars, tunVars, aeadVars, appVars>>

\* The end of forwardMessages for c: the deferred conn.Close and
\* cleanupConnection.
Exit(c, cs, tbl) ==
    /\ conn' = [cs EXCEPT ![c].relay = "closed", ![c].fwd = "exited"]
    /\ connections' = cleanupConnection(tbl, conn[c].sess, conn[c].isSharer)

\* A message read for an empty slot, kept for the peer to come (mutant).
DropMessage_Kept(cs, c) == cs

\* forwardMessages with a nil target: the message read lives in the loop's
\* local variable only and is gone with the next iteration.
DropMessage(cs, c) == [cs EXCEPT ![c].up = Tail(@)]

\* One round of forwardMessages for c: a message is read; the loop breaks
\* when the session has no pair; else the message is written to the
\* connection in the other slot, if any, and the session's activity is
\* updated.  A write to a connection whose client is gone may fail, which
\* breaks the loop.
ForwardOne(c, writeOk) ==
    /\ conn[c].fwd = "running"
    /\ conn[c].relay = "open"
    /\ conn[c].up # << >>
    /\ LET m == Head(conn[c].up)
           id == conn[c].sess
           read == [conn EXCEPT ![c].up = Tail(@)]
           d == IF id \in DOMAIN connections
                THEN RelayTarget(connections[id], conn[c].isSharer) ELSE "none"
           step(to, status) == [op |-> "forward", conn |-> c, sess |-> id, to |-> to,
                                n |-> m.n, status |-> status]
       IN  IF id \notin DOMAIN connections
           THEN /\ Exit(c, read, connections)
                /\ lastRelay' = step("none", 0)
                /\ UNCHANGED sessions
           ELSE IF d = "none"
           THEN /\ writeOk
                /\ conn' = DropMessage(conn, c)
                /\ connections' = [connections EXCEPT ![id].lastSeen = now]
                /\ lastRelay' = step("none", 1)
                /\ sessions' = UpdateActivityMap(sessions, id, now)
           ELSE IF conn[d].relay = "open" /\ (conn[d].client = "open" \/ writeOk)
           THEN /\ conn' = [read EXCEPT ![d].got =
                              IF conn[d].client = "open" THEN Append(@, m) ELSE @]
                /\ connections' = [connections EXCEPT ![id].lastSeen = now]
                /\ lastRelay' = step(IF conn[d].client = "open" THEN d ELSE "none", 1)
                /\ sessions' = UpdateActivityMap(sessions, id, now)
           ELSE /\ Exit(c, read, connections)
                /\ lastRelay' = step("none", 0)
                /\ UNCHANGED sessions
    /\ UNCHANGED <<now, swept, lastCall, wrongRun, fsVars, tunVars, aeadVars, appVars>>

\* forwardMessages for c ends on a read error: the client has closed the
\* connection and all it sent was read, or the relay's monitor closed it.
ForwardReadError(c) ==
    /\ conn[c].fwd = "running"
    /\ \/ conn[c].client = "closed" /\ conn[c].up = << >>
       \/ conn[c].relay = "closed"
    /\ Exit(c, conn, connections)
    /\ lastRelay' = [op |-> "readError", conn |-> c, sess |-> conn[c].sess, to |-> "none",
                     n |-> 0, status |-> 0]
    /\ UNCHANGED <<sessVars, fsVars, tunVars, aeadVars, appVars>>

\* One tick of monitorConnections: the connections of every stale pair are
\* closed and the pair is deleted.
monitorConnections ==
    /\ LET stale == Stale(connections, now) IN
       /\ connections' = [k \in DOMAIN connections \ stale |-> connections[k]]
       /\ conn' = [c \in DOMAIN conn |->
                     IF \E id \in stale : c \in {connections[id].Sharer, connections[id].Receiver}
                     THEN [conn[c] EXCEPT !.relay = "closed"] ELSE conn[c]]
       /\ lastRelay' = [op |-> "monitor", conn |-> "none", sess |-> "", to |-> "none",
                        n |-> 0, status |-> Cardinality(stale)]
    /\ UNCHANGED <<sessVars, fsVars, tunVars, aeadVars, appVars>>

\* Time passes within the horizon of this specification.
RelayTick == now < MaxRelayTime /\ Tick

\* The relay variables while another subsystem runs.
RelIdle ==
    /\ connections = << >>
    /\ conn = [c \in {ConnIDs[i] : i \in 1..Len(ConnIDs)} |-> NoConn]
    /\ lastRelay = NoRelayStep

(***************************************************************************)
(* The sealed records of one tunnel direction (crypto.go AEAD,             *)
(* tunnel.go SendFrame / ReceiveFrame).  The sending tunnel is used by     *)
(* several goroutines; the records cross a relay that may deliver any      *)
(* record it has seen, any number of times and in any order, and may       *)
(* inject records of its own.                                              *)
(***************************************************************************)
Goroutines == {"g1", "g2"}
MaxSends == 3
MaxOpened == 2
Rand == {0, 1}

\* A uint64 is four 16-bit words, most significant first, as
\* binary.BigEndian.PutUint64 lays it out.
Word == 65536
Zero64 == <<0, 0, 0, 0>>

\* x + 1 in uint64 arithmetic.
Inc64(x) ==
    IF x[4] < Word - 1 THEN [x EXCEPT ![4] = @ + 1]
    ELSE IF x[3] < Word - 1 THEN [x EXCEPT ![3] = @ + 1, ![4] = 0]
    ELSE IF x[2] < Word - 1 THEN [x EXCEPT ![2] = @ + 1, ![3] = 0, ![4] = 0]
    ELSE IF x[1] < Word - 1 THEN [x EXCEPT ![1] = @ + 1, ![2] = 0, ![3] = 0, ![4] = 0]
    ELSE Zero64

\* x < y as uint64.
Less64(x, y) == \E i \in 1..4 : x[i] < y[i] /\ \A j \in 1..(i - 1) : x[j] = y[j]

\* The keys of the direction after setupTransportKeys, and a key of the
\* relay's own.
TransportKey == <<"transport", "initiator", "responder">>
ForgedKey == <<"transport", "relay">>

\* NewAEAD: the cipher's counter.
NewAEAD == Zero64

\* The 24-byte nonce of Encrypt: 16 random bytes, then the counter.
EncryptNonce(counter, rnd) == [rand |-> rnd, counter |-> counter]

\* cipher.Seal(nonce, sealNonce, plaintext, nil): nonce || ciphertext || tag.
Seal(key, n, plaintext) == [nonce |-> n, key |-> key, plain |-> plaintext]

\* AEAD.Decrypt: cipher.Open with the nonce the record carries.
Open(key, record) ==
    IF record.key = key
    THEN [err |-> Nil, plain |-> record.plain]
    ELSE [err |-> ErrDecryptionFailed, plain |-> ""]

\* A record sealed by the relay.
ForgedRecord == Seal(ForgedKey, EncryptNonce(Zero64, 0), "forged")

NoRecord == Seal(<< >>, EncryptNonce(Zero64, 0), "")
IdleCall == [pc |-> "idle", reg |-> Zero64, sealed |-> NoRecord]
NoRecv == [err |-> Nil, record |-> NoRecord]

\* t.mu.Lock() returns when no goroutine holds the lock (mutant: the lock
\* is never waited for).
CanLock_Always(holder) == TRUE

CanLock(holder) == holder = "none"

\* SendFrame up to the encryption: the lock is taken; a closed tunnel
\* returns "tunnel closed" (the deferred Unlock runs).
SendFrameLock(g) ==
    /\ call[g].pc = "idle"
    /\ sends < MaxSends
    /\ CanLock(mu)
    /\ sends' = sends + 1
    /\ IF closed
       THEN UNCHANGED <<mu, call>>
       ELSE /\ mu' = g
            /\ call' = [call EXCEPT ![g].pc = "load"]
    /\ UNCHANGED <<closed, nonce, written, opened, lastRecv>>
    /\ UNCHANGED <<sessVars, fsVars, tunVars, relVars, appVars>>

\* Encrypt, a.nonce++: the counter is read ...
EncryptLoad(g) ==
    /\ call[g].pc = "load"
    /\ call' = [call EXCEPT ![g].pc = "store", ![g].reg = nonce]
    /\ UNCHANGED <<mu, closed, nonce, sends, written, opened, lastRecv>>
    /\ UNCHANGED <<sessVars, fsVars, tunVars, relVars, appVars>>

\* ... and written back incremented; the nonce is built from the counter
\* and random bytes and the payload sealed.  When rand.Read fails Encrypt
\* returns the error and SendFrame returns (the deferred Unlock runs).
EncryptSeal(g, rnd, randOk) ==
    /\ call[g].pc = "store"
    /\ LET counter == Inc64(call[g].reg) IN
       /\ nonce' = counter
       /\ IF randOk
          THEN /\ call' = [call EXCEPT ![g].pc = "write",
                              ![g].sealed = Seal(TransportKey, EncryptNonce(counter, rnd), g)]
               /\ UNCHANGED mu
          ELSE /\ call' = [call EXCEPT ![g] = IdleCall]
               /\ mu' = "none"
    /\ UNCHANGED <<closed, sends, written, opened, lastRecv>>
    /\ UNCHANGED <<sessVars, fsVars, tunVars, relVars, appVars>>

\* SendFrame from the encryption on: conn.WriteMessage of the record, which
\* may fail; the deferred Unlock.
SendFrameWrite(g, ok) ==
    /\ call[g].pc = "write"
    /\ written' = IF ok THEN Append(written, call[g].sealed) ELSE written
    /\ call' = [call EXCEPT ![g] = IdleCall]
    /\ mu' = "none"
    /\ UNCHANGED <<closed, nonce, sends, opened, lastRecv>>
    /\ UNCHANGED <<sessVars, fsVars, tunVars, relVars, appVars>>

\* Tunnel.Close of the sending tunnel.
CloseSender ==
    /\ CanLock(mu)
    /\ ~closed
    /\ closed' = TRUE
    /\ UNCHANGED <<mu, nonce, call, sends, written, opened, lastRecv>>
    /\ UNCHANGED <<sessVars, fsVars, tunVars, relVars, appVars>>

\* What the relay can hand to the receiving tunnel.
Deliverable == {written[i] : i \in 1..Len(written)} \cup {ForgedRecord}

\* ReceiveFrame of the receiving tunnel on the message the relay delivers:
\* the record is decrypted with the receive cipher and, when it opens, its
\* frame is returned.
ReceiveRecord(record) ==
    /\ Len(opened) < MaxOpened
    /\ LET r == Open(TransportKey, record) IN
       /\ opened' = IF r.err = Nil THEN Append(opened, record) ELSE opened
       /\ lastRecv' = [err |-> r.err, record |-> record]
    /\ UNCHANGED <<mu, closed, nonce, call, sends, written>>
    /\ UNCHANGED <<sessVars, fsVars, tunVars, relVars, appVars>>

\* The direction right after setupTransportKeys.
AeadIdle ==
    /\ mu = "none"
    /\ closed = FALSE
    /\ nonce = NewAEAD
    /\ call = [g \in Goroutines |-> IdleCall]
    /\ sends = 0
    /\ written = << >>
    /\ opened = << >>
    /\ lastRecv = NoRecv

(***************************************************************************)
(* int64 values (Offset, Length, file sizes): four 16-bit words, most      *)
(* significant first, in two's complement.                                 *)
(***************************************************************************)
\* The int64 of a small integer n, |n| < 2^31.
I64(n) ==
    IF n >= 0 THEN <<0, 0, n \div Word, n % Word>>
    ELSE LET m == (-n) - 1 IN
         <<Word - 1, Word - 1, Word - 1 - (m \div Word), Word - 1 - (m % Word)>>

MaxInt64 == <<(Word \div 2) - 1, Word - 1, Word - 1, Word - 1>>
MinInt64 == <<Word \div 2, 0, 0, 0>>

\* x + y on int64: the carry out of the top word is dropped.
Add64(x, y) ==
    LET s4 == x[4] + y[4]
        s3 == x[3] + y[3] + (s4 \div Word)
        s2 == x[2] + y[2] + (s3 \div Word)
        s1 == x[1] + y[1] + (s2 \div Word)
    IN  <<s1 % Word, s2 % Word, s3 % Word, s4 % Word>>

\* x - y on int64.
Sub64(x, y) ==
    Add64(x, Add64(<<Word - 1 - y[1], Word - 1 - y[2], Word - 1 - y[3], Word - 1 - y[4]>>,
                   I64(1)))

IsNeg64(x) == x[1] >= Word \div 2

\* x < y on int64.
SLess64(x, y) == IF IsNeg64(x) # IsNeg64(y) THEN IsNeg64(x) ELSE Less64(x, y)

\* The integer a non-negative int64 below 2^31 stands for.
Val64(x) == x[3] * Word + x[4]

(***************************************************************************)
(* The sharer's dispatcher (part_019 handleShareRequests, processRequest)  *)
(* over the secure filesystem, and the frame types and error codes of      *)
(* package protocol.                                                       *)
(***************************************************************************)
MaxFrameSize == 1048576
FrameTypeList == 16
FrameTypeStat == 17
FrameTypeRead == 18
FrameTypeWrite == 19
FrameTypeDelete == 20
FrameTypeRename == 21
FrameTypeMkdir == 22
FrameTypeResponse == 32
FrameTypeError == 33
FrameTypePing == 48
FrameTypePong == 49

\* A frame type ValidateFrameType does not know.
FrameTypeOther == 2 * FrameTypeResponse

ErrCodeNotFound == 1
ErrCodePermission == 2
ErrCodeInvalidPath == 6
ErrCodeIO == 8
ErrCodeUnknown == 99

ErrUnknownFrameType == "unknown frame type"
ErrTunnelClosed == "tunnel closed"
ErrReceive == "failed to receive"
ErrDecrypt == "failed to decrypt"
ErrDecode == "failed to decode frame"
ErrInvalidOffset == "invalid offset"
ErrGob == "gob: decode error"

ValidateFrameType(frameType) ==
    frameType \in {FrameTypeHandshake, FrameTypeHandshakeResp, FrameTypeList,
                   FrameTypeStat, FrameTypeRead, FrameTypeWrite, FrameTypeDelete,
                   FrameTypeRename, FrameTypeMkdir, FrameTypeResponse, FrameTypeError,
                   FrameTypePing, FrameTypePong}

\* SecureFilesystem.Read from the offset check on, for a file of the given
\* size: the error, and the number of bytes returned.  io.ReadFull fills
\* the buffer of the computed length or stops at the end of the file.
maxReadSize == 10485760

\* Read returning the whole buffer it allocated (mutant).
ReadLength_WholeBuffer(size, offset, length) ==
    IF SLess64(offset, I64(0)) \/ SLess64(size, offset)
    THEN [err |-> ErrInvalidOffset, n |-> I64(0)]
    ELSE LET wanted == IF ~SLess64(I64(0), length)
                          \/ SLess64(size, Add64(offset, length))
                       THEN Sub64(size, offset) ELSE length
         IN  [err |-> Nil, n |-> IF SLess64(I64(maxReadSize), wanted)
                                 THEN I64(maxReadSize) ELSE wanted]

ReadLength(size, offset, length) ==
    IF SLess64(offset, I64(0)) \/ SLess64(size, offset)
    THEN [err |-> ErrInvalidOffset, n |-> I64(0)]
    ELSE LET wanted == IF ~SLess64(I64(0), length)
                          \/ SLess64(size, Add64(offset, length))
                       THEN Sub64(size, offset) ELSE length
             buffer == IF SLess64(I64(maxReadSize), wanted) THEN I64(maxReadSize)
                       ELSE wanted
             rest == Sub64(size, offset)
         IN  [err |-> Nil, n |-> IF SLess64(rest, buffer) THEN rest ELSE buffer]

\* SecureFilesystem.Read with its offset and length.
FsReadAt(t, path, offset, length) ==
    LET r == FsRead(t, path) IN
    IF r.err # Nil THEN r
    ELSE LET file == CHOOSE q \in r.touched : TRUE
             rl == ReadLength(I64(Len(t[file].data)), offset, length)
         IN  IF rl.err # Nil THEN Result(rl.err, t, r.touched) ELSE r

\* Read on an open file of the given size: what it returns for an offset
\* and a length.
ReadAt(size, offset, length) ==
    /\ LET rl == ReadLength(I64(size), offset, length) IN
       lastFs' = [op |-> "readAt", err |-> rl.err, touched |-> {}, accepted |-> {},
                  size |-> size, offset |-> offset, length |-> length, n |-> rl.n]
    /\ UNCHANGED <<tree, readOnly, fsOps>>
    /\ UNCHANGED <<sessVars, tunVars, relVars, aeadVars, appVars>>

\* errorFrame / responseFrame / the pong of processRequest.
errorFrame(code, message) == [type |-> FrameTypeError, code |-> code, message |-> message]
responseFrame == [type |-> FrameTypeResponse, code |-> 0, message |-> ""]
pongFrame == [type |-> FrameTypePong, code |-> 0, message |-> ""]
NoFrame == [type |-> 0, code |-> 0, message |-> ""]

\* A request frame as ReceiveFrame returns it: its type, whether its payload
\* decodes as the request of that type, and the request's fields.
RequestFrame(type, decodes, path, newPath, offset) ==
    [type |-> type, decodes |-> decodes, path |-> path, newPath |-> newPath,
     offset |-> offset]

NoRequest == RequestFrame(0, FALSE, Rel(<< >>), Rel(<< >>), 0)

\* The reply for a filesystem result, no frame being made for an error.
ReplyFor_Silent(r, code) ==
    [reply |-> IF r.err # Nil THEN NoFrame ELSE responseFrame, tree |-> r.tree]

\* The reply for a filesystem result: the error frame with the given code,
\* or the response.
ReplyFor(r, code) ==
    [reply |-> IF r.err # Nil THEN errorFrame(code, r.err) ELSE responseFrame,
     tree |-> r.tree]

\* processRequest: the reply frame and the tree afterwards.
processRequest(frame, t, ro) ==
    IF frame.type = FrameTypePing THEN [reply |-> pongFrame, tree |-> t]
    ELSE IF frame.type \notin {FrameTypeList, FrameTypeStat, FrameTypeRead,
                               FrameTypeWrite, FrameTypeDelete, FrameTypeRename,
                               FrameTypeMkdir}
    THEN [reply |-> errorFrame(ErrCodeUnknown, "unknown request type"), tree |-> t]
    ELSE IF ~frame.decodes
    THEN [reply |-> errorFrame(ErrCodeUnknown, ErrGob), tree |-> t]
    ELSE IF frame.type = FrameTypeList
    THEN ReplyFor(FsList(t, frame.path), ErrCodeIO)
    ELSE IF frame.type = FrameTypeStat
    THEN ReplyFor(FsStat(t, frame.path), ErrCodeNotFound)
    ELSE IF frame.type = FrameTypeRead
    THEN ReplyFor(FsReadAt(t, frame.path, I64(frame.offset), I64(0)), ErrCodeIO)
    ELSE IF frame.type = FrameTypeWrite
    THEN ReplyFor(FsWrite(t, ro, frame.path, 0, <<7>>), ErrCodePermission)
    ELSE IF frame.type = FrameTypeDelete
    THEN ReplyFor(FsDelete(t, ro, frame.path), ErrCodePermission)
    ELSE IF frame.type = FrameTypeRename
    THEN ReplyFor(FsRename(t, ro, frame.path, frame.newPath), ErrCodePermission)
    ELSE ReplyFor(FsMkdir(t, ro, frame.path), ErrCodePermission)

\* The text of an *os.PathError: the call, the host path it was made on and
\* the text of the errno.
PathErrorText(syscall, path) == <<syscall, " ">> \o PathText(path) \o <<": ", "errno">>

\* The path of the Lstat that makes filepath.EvalSymlinks fail: what has
\* been resolved so far and the component that is missing, below a file or
\* one link too many.
RECURSIVE WalkFail(_, _, _, _)
WalkFail(t, cur, rest, fuel) ==
    IF rest = << >> THEN cur
    ELSE LET next == Append(cur, Head(rest)) IN
         IF next \notin DOMAIN t THEN next
         ELSE IF t[next].kind = "link"
              THEN IF fuel = 0 THEN next
                   ELSE WalkFail(t, << >>, t[next].target \o Tail(rest), fuel - 1)
         ELSE IF t[next].kind = "file" /\ Tail(rest) # << >>
              THEN Append(next, Head(Tail(rest)))
         ELSE WalkFail(t, next, Tail(rest), fuel)

\* sanitizePath's "invalid path: %w" around the error of EvalSymlinks on the
\* parent directory.
InvalidPathText(t, path) ==
    LET fullPath == Join(rootPath, TrimPrefixSeparator(Clean(path)))
    IN  <<"invalid path: ">>
        \o PathErrorText("lstat", WalkFail(t, << >>, Dir(fullPath), MaxSymlinkHops))

\* The fmt.Errorf("...: %w", err) of each method around the error of its
\* os call on the sanitized path.
OsErrorText(frame, t) ==
    LET safePath == sanitizePath(t, frame.path).path IN
    IF frame.type = FrameTypeList
    THEN <<"failed to read directory: ">> \o PathErrorText("open", safePath)
    ELSE IF frame.type = FrameTypeStat
    THEN <<"failed to stat file: ">> \o PathErrorText("stat", safePath)
    ELSE IF frame.type \in {FrameTypeRead, FrameTypeWrite}
    THEN <<"failed to open file: ">> \o PathErrorText("open", safePath)
    ELSE IF frame.type = FrameTypeDelete
    THEN <<"failed to delete: ">> \o PathErrorText("unlinkat", safePath)
    ELSE IF frame.type = FrameTypeRename
    THEN <<"failed to rename: ", "rename", " ">> \o PathText(safePath) \o <<" ">>
         \o PathText(sanitizePath(t, frame.newPath).path) \o <<": ", "errno">>
    ELSE <<"failed to create directory: ">> \o PathErrorText("mkdir", safePath)

\* err.Error() as processRequest puts it into the error frame: the text of
\* the error frame's message for a request, << >> when the reply is no error.
ErrorMessage(reply, frame, t) ==
    IF reply.type # FrameTypeError THEN << >>
    ELSE IF reply.message = ErrOs THEN OsErrorText(frame, t)
    ELSE IF reply.message = ErrInvalidPath
    THEN IF frame.type = FrameTypeRename /\ sanitizePath(t, frame.path).err = Nil
         THEN InvalidPathText(t, frame.newPath)
         ELSE InvalidPathText(t, frame.path)
    ELSE <<reply.message>>

\* strings.Contains on two texts.
ContainsText(str, sub) ==
    \E i \in 1..(Len(str) - Len(sub) + 1) : SubSeq(str, i, i + Len(sub) - 1) = sub

\* What the connector's side and the path deliver to one ReceiveFrame of
\* the sharer: a failed read (peer gone, EOF, deadline), a record that does
\* not open, a plaintext that is no frame, or a frame.
MaxRounds == 2
SharePaths == {Abs(<<"f">>), Rel(<<"g">>), Rel(<<"g", "n">>), Rel(<<"..", "o", "p">>)}
ShareFrames ==
    {RequestFrame(ty, TRUE, p, Rel(<<"g">>), 0) :
        ty \in {FrameTypeList, FrameTypeStat, FrameTypeWrite, FrameTypeDelete,
                FrameTypeRename, FrameTypeMkdir},
        p \in SharePaths}
    \cup {RequestFrame(FrameTypeRead, TRUE, p, Rel(<< >>), o) :
            p \in SharePaths, o \in {0, 5}}
    \cup {RequestFrame(ty, FALSE, Rel(<< >>), Rel(<< >>), 0) :
            ty \in {FrameTypeStat, FrameTypeOther, FrameTypeResponse, FrameTypePing}}
ShareInputs ==
    {[recv |-> k, frame |-> NoRequest, sendOk |-> TRUE] :
        k \in {"readError", "noOpen", "noFrame"}}
    \cup {[recv |-> "frame", frame |-> f, sendOk |-> ok] :
            f \in ShareFrames, ok \in BOOLEAN}

\* Tunnel.ReceiveFrame of the sharer's tunnel: the error it returns.
ReceiveFrameErr(in, isClosed, conn0) ==
    IF isClosed THEN ErrTunnelClosed
    ELSE IF conn0 = "failed" \/ in.recv = "readError" THEN ErrReceive
    ELSE IF in.recv = "noOpen" THEN ErrDecrypt
    ELSE IF in.recv = "noFrame" THEN ErrDecode
    ELSE IF ~ValidateFrameType(in.frame.type) THEN ErrUnknownFrameType
    ELSE Nil

\* tun.SendFrame(response) in the loop: the write to the connection may fail.
SendReplyErr(sendOk) == IF sendOk THEN Nil ELSE "failed to send"

\* One round of handleShareRequests: ReceiveFrame; on an error the loop
\* returns when the tunnel is closed and goes on otherwise; else
\* processRequest and SendFrame of its reply, whose error is logged.
handleShareRequests(in) ==
    /\ loop = "receiving"
    /\ rounds < MaxRounds
    /\ rounds' = rounds + 1
    /\ LET err == ReceiveFrameErr(in, closed, link) IN
       IF err # Nil
       THEN /\ loop' = IF closed THEN "returned" ELSE "receiving"
            /\ link' = IF err = ErrReceive THEN "failed" ELSE link
            /\ lastShare' = [err |-> err, frame |-> in.frame, hasFrame |-> FALSE,
                             reply |-> NoFrame, text |-> << >>, before |-> tree]
            /\ UNCHANGED <<tree, arrived, replies>>
       ELSE LET r == processRequest(in.frame, tree, readOnly) IN
            /\ tree' = r.tree
            /\ lastShare' = [err |-> Nil, frame |-> in.frame, hasFrame |-> TRUE,
                             reply |-> r.reply,
                             text |-> ErrorMessage(r.reply, in.frame, tree),
                             before |-> tree]
            /\ arrived' = Append(arrived, rounds + 1)
            /\ replies' = Append(replies, [n |-> rounds + 1, type |-> r.reply.type,
                                           err |-> SendReplyErr(in.sendOk)])
            /\ UNCHANGED <<loop, link>>
    /\ UNCHANGED <<readOnly, fsOps, lastFs>>
    /\ UNCHANGED <<sessVars, tunVars, relVars, aeadVars, frameVars, lockVars, browserVars, moreVars>>

NoShare ==
    [err |-> Nil, frame |-> NoRequest, hasFrame |-> FALSE, reply |-> NoFrame,
     text |-> << >>, before |-> << >>]

(***************************************************************************)
(* One tunnel used by several goroutines (tunnel.go SendFrame,             *)
(* ReceiveFrame, Close): every method takes t.mu for its whole body, and   *)
(* ReceiveFrame waits in conn.ReadMessage with the lock held.              *)
(***************************************************************************)
MaxCalls == 4
TunnelOps == {"SendFrame", "ReceiveFrame", "Close"}
IdleThread == [pc |-> "idle", op |-> "none"]

\* Close: the number of conn.Close() calls made so far, after this call
\* (mutant: the closed flag is not tested).
CloseConn_Always(isClosed, n) == n + 1

CloseConn(isClosed, n) == IF isClosed THEN n ELSE n + 1

\* A goroutine calls a method of the tunnel: it is at t.mu.Lock().
TunnelCall(g, op) ==
    /\ thread[g].pc = "idle"
    /\ calls < MaxCalls
    /\ calls' = calls + 1
    /\ thread' = [thread EXCEPT ![g] = [pc |-> "wait", op |-> op]]
    /\ UNCHANGED <<mu, closed, closes, connIO, ret>>
    /\ UNCHANGED <<nonce, call, sends, written, opened, lastRecv>>
    /\ UNCHANGED <<sessVars, fsVars, tunVars, relVars, shareVars, frameVars, browserVars, moreVars>>

\* t.mu.Lock() returns.
TunnelLock(g) ==
    /\ thread[g].pc = "wait"
    /\ CanLock(mu)
    /\ mu' = g
    /\ thread' = [thread EXCEPT ![g].pc = "locked"]
    /\ UNCHANGED <<closed, closes, connIO, ret, calls>>
    /\ UNCHANGED <<nonce, call, sends, written, opened, lastRecv>>
    /\ UNCHANGED <<sessVars, fsVars, tunVars, relVars, shareVars, frameVars, browserVars, moreVars>>

\* Close under the lock: nil at once when already closed, else the flag is
\* set and the connection closed; the deferred Unlock.
TunnelClose(g) ==
    /\ thread[g].pc = "locked" /\ thread[g].op = "Close"
    /\ closed' = TRUE
    /\ closes' = CloseConn(closed, closes)
    /\ ret' = [ret EXCEPT ![g] = [op |-> "Close", err |-> Nil]]
    /\ thread' = [thread EXCEPT ![g] = IdleThread]
    /\ mu' = "none"
    /\ UNCHANGED <<connIO, calls>>
    /\ UNCHANGED <<nonce, call, sends, written, opened, lastRecv>>
    /\ UNCHANGED <<sessVars, fsVars, tunVars, relVars, shareVars, frameVars, browserVars, moreVars>>

\* SendFrame under the lock: "tunnel closed" when closed, else the frame is
\* sealed and written (the write may fail); the deferred Unlock.
TunnelSend(g, ok) ==
    /\ thread[g].pc = "locked" /\ thread[g].op = "SendFrame"
    /\ IF closed
       THEN /\ ret' = [ret EXCEPT ![g] = [op |-> "SendFrame", err |-> ErrTunnelClosed]]
            /\ UNCHANGED connIO
       ELSE /\ ret' = [ret EXCEPT ![g] = [op |-> "SendFrame",
                                          err |-> IF ok THEN Nil ELSE "failed to send"]]
            /\ connIO' = connIO + 1
    /\ thread' = [thread EXCEPT ![g] = IdleThread]
    /\ mu' = "none"
    /\ UNCHANGED <<closed, closes, calls>>
    /\ UNCHANGED <<nonce, call, sends, written, opened, lastRecv>>
    /\ UNCHANGED <<sessVars, fsVars, tunVars, relVars, shareVars, frameVars, browserVars, moreVars>>

\* ReceiveFrame under the lock: "tunnel closed" when closed, else it enters
\* conn.ReadMessage and waits there, the lock held.
TunnelReceive(g) ==
    /\ thread[g].pc = "locked" /\ thread[g].op = "ReceiveFrame"
    /\ IF closed
       THEN /\ ret' = [ret EXCEPT ![g] = [op |-> "ReceiveFrame", err |-> ErrTunnelClosed]]
            /\ thread' = [thread EXCEPT ![g] = IdleThread]
            /\ mu' = "none"
            /\ UNCHANGED connIO
       ELSE /\ thread' = [thread EXCEPT ![g].pc = "reading"]
            /\ connIO' = connIO + 1
            /\ UNCHANGED <<ret, mu>>
    /\ UNCHANGED <<closed, closes, calls>>
    /\ UNCHANGED <<nonce, call, sends, written, opened, lastRecv>>
    /\ UNCHANGED <<sessVars, fsVars, tunVars, relVars, shareVars, frameVars, browserVars, moreVars>>

\* conn.ReadMessage returns: a message arrived, or the deadline passed or
\* the peer went away; ReceiveFrame returns (the deferred Unlock).
TunnelReadReturns(g, ok) ==
    /\ thread[g].pc = "reading"
    /\ ret' = [ret EXCEPT ![g] = [op |-> "ReceiveFrame",
                                  err |-> IF ok THEN Nil ELSE ErrReceive]]
    /\ thread' = [thread EXCEPT ![g] = IdleThread]
    /\ mu' = "none"
    /\ UNCHANGED <<closed, closes, connIO, calls>>
    /\ UNCHANGED <<nonce, call, sends, written, opened, lastRecv>>
    /\ UNCHANGED <<sessVars, fsVars, tunVars, relVars, shareVars, frameVars, browserVars, moreVars>>

NoReturn == [op |-> "none", err |-> Nil]

\* The tunnel right after NewTunnel.
LockIdle ==
    /\ thread = [g \in Goroutines |-> IdleThread]
    /\ closes = 0
    /\ connIO = 0
    /\ ret = [g \in Goroutines |-> NoReturn]
    /\ calls = 0

(***************************************************************************)
(* The connector's file browser (part_016): the Bubble Tea model m, its    *)
(* key handlers, and the commands loadDirectory and initiateDownload, each *)
(* run by the program in a goroutine of its own over the one tunnel.  A    *)
(* command's closure works on the copy of the model it was made from.      *)
(* The path is the depth of currentPath below "/".                         *)
(***************************************************************************)
CmdOrder == <<"c1", "c2", "c3">>
Cmds == {CmdOrder[i] : i \in 1..Len(CmdOrder)}
MaxChunks == 2
FreeCmd == [kind |-> "none", pc |-> "free", path |-> 0, left |-> 0, req |-> 0, err |-> Nil]

\* The command made by m.loadDirectory(): one list request for the path the
\* model had when the command was made.
loadDirectory(path) ==
    [kind |-> "list", pc |-> "send", path |-> path, left |-> 1, req |-> 0, err |-> Nil]

\* The command made by m.initiateDownload(name, size): one read request per
\* 64 KiB chunk; the download state it sets is that of its own copy of m.
initiateDownload(path, chunks) ==
    [kind |-> "read", pc |-> IF chunks = 0 THEN "returned" ELSE "send",
     path |-> path, left |-> chunks, req |-> 0, err |-> Nil]

HasFree == \E c \in Cmds : cmd[c].pc = "free"
NewCmd ==
    CmdOrder[CHOOSE i \in 1..Len(CmdOrder) :
                /\ cmd[CmdOrder[i]].pc = "free"
                /\ \A j \in 1..(i - 1) : cmd[CmdOrder[j]].pc # "free"]

\* The program starts the command an Update returned.
Start(command) == cmd' = [cmd EXCEPT ![NewCmd] = command]

BrowserRest ==
    /\ UNCHANGED <<closed, nonce, call, sends, written, opened, lastRecv>>
    /\ UNCHANGED <<sessVars, fsVars, tunVars, relVars, shareVars, frameVars, lockVars, moreVars>>

\* Enter on the selected item: a directory is entered and listed, a file
\* downloaded.  ".." is an item of a listing made below the root.
handleEnterKey(item) ==
    /\ ~model.isDownloading
    /\ model.hasItems
    /\ HasFree
    /\ item.name = ".." => model.hasParent /\ model.path > 0
    /\ IF item.isDir
       THEN LET path == IF item.name = ".." THEN model.path - 1 ELSE model.path + 1
            IN  /\ model' = [model EXCEPT !.path = path]
                /\ Start(loadDirectory(path))
       ELSE /\ Start(initiateDownload(model.path, item.chunks))
            /\ UNCHANGED model
    /\ UNCHANGED <<mu, toSharer, fromSharer, nreq, ticks, lastGot>>
    /\ BrowserRest

\* Backspace: up one directory, unless at the root.
handleBackspaceKey ==
    /\ ~model.isDownloading
    /\ model.path # 0
    /\ HasFree
    /\ model' = [model EXCEPT !.path = model.path - 1]
    /\ Start(loadDirectory(model.path - 1))
    /\ UNCHANGED <<mu, toSharer, fromSharer, nreq, ticks, lastGot>>
    /\ BrowserRest

\* "d" on a selected file.
handleDownloadKey(chunks) ==
    /\ ~model.isDownloading
    /\ model.hasItems
    /\ HasFree
    /\ Start(initiateDownload(model.path, chunks))
    /\ UNCHANGED <<model, mu, toSharer, fromSharer, nreq, ticks, lastGot>>
    /\ BrowserRest

\* A command's m.tunnel.SendFrame(frame): lock, seal, write, unlock.
SendRequest(c) ==
    /\ cmd[c].pc = "send"
    /\ CanLock(mu)
    /\ nreq' = nreq + 1
    /\ toSharer' = Append(toSharer, [id |-> nreq + 1, kind |-> cmd[c].kind])
    /\ cmd' = [cmd EXCEPT ![c].pc = "lock", ![c].req = nreq + 1]
    /\ UNCHANGED <<model, mu, fromSharer, ticks, lastGot>>
    /\ BrowserRest

\* A command's m.tunnel.ReceiveFrame() takes the lock and starts to read.
ReceiveLock(c) ==
    /\ cmd[c].pc = "lock"
    /\ CanLock(mu)
    /\ mu' = c
    /\ cmd' = [cmd EXCEPT ![c].pc = "reading"]
    /\ UNCHANGED <<model, toSharer, fromSharer, nreq, ticks, lastGot>>
    /\ BrowserRest

\* ReceiveFrame returns the next frame of the connection.  A response of
\* the other kind does not decode; a download goes on to its next chunk.
ReceiveResponse(c) ==
    /\ cmd[c].pc = "reading"
    /\ fromSharer # << >>
    /\ LET resp == Head(fromSharer)
       IN  /\ lastGot' = [cmd |-> c, want |-> cmd[c].req, of |-> resp.id]
           /\ cmd' = [cmd EXCEPT ![c] =
                  IF resp.kind # cmd[c].kind
                  THEN [@ EXCEPT !.pc = "returned", !.err = ErrGob]
                  ELSE IF cmd[c].left > 1
                       THEN [@ EXCEPT !.pc = "send", !.left = @ - 1]
                       ELSE [@ EXCEPT !.pc = "returned", !.left = 0]]
    /\ fromSharer' = Tail(fromSharer)
    /\ mu' = "none"
    /\ UNCHANGED <<model, toSharer, nreq, ticks>>
    /\ BrowserRest

\* The sharer's loop answers the requests in the order they arrive.
SharerAnswers ==
    /\ toSharer # << >>
    /\ fromSharer' = Append(fromSharer, Head(toSharer))
    /\ toSharer' = Tail(toSharer)
    /\ UNCHANGED <<model, cmd, mu, nreq, ticks, lastGot>>
    /\ BrowserRest

\* Update on the message a command returned: the items or the error of a
\* listing, downloadCompleteMsg (with its 2 s tick) or downloadErrorMsg.
Update(c) ==
    /\ cmd[c].pc = "returned"
    /\ cmd' = [cmd EXCEPT ![c].pc = "done"]
    /\ IF cmd[c].kind = "list"
       THEN /\ model' = IF model.isDownloading THEN model
                    ELSE IF cmd[c].err = Nil
                         THEN [model EXCEPT !.hasItems = TRUE,
                                        !.hasParent = (cmd[c].path # 0),
                                        !.error = Nil]
                         ELSE [model EXCEPT !.error = cmd[c].err]
            /\ UNCHANGED ticks
       ELSE IF cmd[c].err = Nil
            THEN /\ model' = [model EXCEPT !.isDownloading = FALSE]
                 /\ ticks' = ticks + 1
            ELSE /\ model' = [model EXCEPT !.isDownloading = FALSE, !.error = cmd[c].err]
                 /\ UNCHANGED ticks
    /\ UNCHANGED <<mu, toSharer, fromSharer, nreq, lastGot>>
    /\ BrowserRest

\* Update on downloadResetMsg: the download state is reset and the
\* directory listed again.
downloadReset ==
    /\ ticks > 0
    /\ HasFree
    /\ ticks' = ticks - 1
    /\ model' = [model EXCEPT !.isDownloading = FALSE]
    /\ Start(loadDirectory(model.path))
    /\ UNCHANGED <<mu, toSharer, fromSharer, nreq, lastGot>>
    /\ BrowserRest

Items ==
    {[name |-> "sub", isDir |-> TRUE, chunks |-> 0],
     [name |-> "..", isDir |-> TRUE, chunks |-> 0]}
    \cup {[name |-> "file", isDir |-> FALSE, chunks |-> k] : k \in 0..MaxChunks}

NoGot == [cmd |-> "none", want |-> 0, of |-> 0]

\* newModel, and no command started.
BrowserIdle ==
    /\ model = [path |-> 0, hasItems |-> FALSE, hasParent |-> FALSE,
            isDownloading |-> FALSE, error |-> Nil]
    /\ cmd = [c \in Cmds |-> FreeCmd]
    /\ toSharer = << >>
    /\ fromSharer = << >>
    /\ nreq = 0
    /\ ticks = 0
    /\ lastGot = NoGot

(***************************************************************************)
(* One NoiseHandshake object and its methods called in any order           *)
(* (noise.go CreateInitiatorMessage ... DeriveTransportKeys), each with    *)
(* the tests it makes on the object before it acts.                        *)
(***************************************************************************)
MaxNoiseCalls == 3
ErrRole == "wrong role"
ErrTooShort == "message too short"
ErrProcessFirst == "must process initiator message first"
NoMessage == [eph |-> NoKey, enc |-> Encrypt(NoKey, NoAuthData)]
ShortMessage == [eph |-> "short", enc |-> Encrypt(NoKey, NoAuthData)]

NoisePSK == DeriveKey(<<4, 9>>, "7F9Q2A")
WrongPSK == DeriveKey(<<7, 1>>, "7F9Q2A")

\* What a peer on the other end may send to the object: the message of an
\* honest peer that holds the given key, written for the object's ephemeral
\* key where the message answers it.
PeerM1(psk) == CreateInitiatorMessage(NewNoiseHandshake(psk, TRUE, "peer"), "peer").msg
PeerM2(psk, nh) ==
    CreateResponderMessage(
        TakeRemote(NewNoiseHandshake(psk, FALSE, "peer"),
                   [eph |-> nh.localEphemeral.Public, enc |-> Encrypt(NoKey, NoAuthData)]),
        "peer").msg

NoiseCreateInitiatorMessage(nh) ==
    IF ~nh.initiator THEN [nh |-> nh, err |-> ErrRole, msg |-> NoMessage]
    ELSE CreateInitiatorMessage(nh, "own")

NoiseProcessInitiatorMessage(nh, message) ==
    IF nh.initiator THEN [nh |-> nh, err |-> ErrRole]
    ELSE IF message = ShortMessage THEN [nh |-> nh, err |-> ErrTooShort]
    ELSE ProcessInitiatorMessage(nh, message)

NoiseCreateResponderMessage(nh) ==
    IF nh.initiator THEN [nh |-> nh, err |-> ErrRole, msg |-> NoMessage]
    ELSE IF nh.remoteEphemeral = NoKey
    THEN [nh |-> nh, err |-> ErrProcessFirst, msg |-> NoMessage]
    ELSE CreateResponderMessage(nh, "own")

NoiseProcessResponderMessage(nh, message) ==
    IF ~nh.initiator THEN [nh |-> nh, err |-> ErrRole]
    ELSE IF message = ShortMessage THEN [nh |-> nh, err |-> ErrTooShort]
    ELSE ProcessResponderMessage(nh, message)

NoiseRest ==
    UNCHANGED <<sessVars, fsVars, tunVars, relVars, aeadVars, shareVars, frameVars,
                lockVars, browserVars, gorVars, valVars>>

\* The messages a caller may hand to the object's Process methods.
NoiseMessages(nh) ==
    {ShortMessage, PeerM1(NoisePSK), PeerM1(WrongPSK),
     [PeerM1(NoisePSK) EXCEPT !.eph = LowOrderPoint],
     PeerM2(NoisePSK, nh), PeerM2(WrongPSK, nh)}

\* One call of each method on the object: the object afterwards, the
\* method's error, and the methods that have returned nil so far.
CallCreateInitiatorMessage ==
    /\ noiseCalls < MaxNoiseCalls
    /\ noiseCalls' = noiseCalls + 1
    /\ LET r == NoiseCreateInitiatorMessage(hs) IN
       /\ hs' = r.nh
       /\ hsLast' = [op |-> "CreateInitiatorMessage", err |-> r.err]
       /\ hsDone' = IF r.err = Nil THEN hsDone \cup {"CreateInitiatorMessage"} ELSE hsDone
    /\ NoiseRest

CallProcessInitiatorMessage(message) ==
    /\ noiseCalls < MaxNoiseCalls
    /\ noiseCalls' = noiseCalls + 1
    /\ LET r == NoiseProcessInitiatorMessage(hs, message) IN
       /\ hs' = r.nh
       /\ hsLast' = [op |-> "ProcessInitiatorMessage", err |-> r.err]
       /\ hsDone' = IF r.err = Nil THEN hsDone \cup {"ProcessInitiatorMessage"} ELSE hsDone
    /\ NoiseRest

CallCreateResponderMessage ==
    /\ noiseCalls < MaxNoiseCalls
    /\ noiseCalls' = noiseCalls + 1
    /\ LET r == NoiseCreateResponderMessage(hs) IN
       /\ hs' = r.nh
       /\ hsLast' = [op |-> "CreateResponderMessage", err |-> r.err]
       /\ hsDone' = IF r.err = Nil THEN hsDone \cup {"CreateResponderMessage"} ELSE hsDone
    /\ NoiseRest

CallProcessResponderMessage(message) ==
    /\ noiseCalls < MaxNoiseCalls
    /\ noiseCalls' = noiseCalls + 1
    /\ LET r == NoiseProcessResponderMessage(hs, message) IN
       /\ hs' = r.nh
       /\ hsLast' = [op |-> "ProcessResponderMessage", err |-> r.err]
       /\ hsDone' = IF r.err = Nil THEN hsDone \cup {"ProcessResponderMessage"} ELSE hsDone
    /\ NoiseRest

CallDeriveTransportKeys ==
    /\ noiseCalls < MaxNoiseCalls
    /\ noiseCalls' = noiseCalls + 1
    /\ LET r == DeriveTransportKeys(hs) IN
       /\ hsLast' = [op |-> "DeriveTransportKeys", err |-> r.err]
       /\ hsDone' = IF r.err = Nil THEN hsDone \cup {"DeriveTransportKeys"} ELSE hsDone
    /\ UNCHANGED hs
    /\ NoiseRest

NoiseIdle ==
    /\ hs = NoHandshake
    /\ hsDone = {}
    /\ hsLast = [op |-> "none", err |-> Nil]
    /\ noiseCalls = 0

(***************************************************************************)
(* The relay's goroutines on one session's pair and their locks            *)
(* (part_017, part_014): rs.mu (the table lock), pair.mu and the session   *)
(* manager's sm.mu.  The sharer has joined: its forwarder and its pinger   *)
(* run; the receiver's handler, the forwarder it starts, the monitor, the  *)
(* session sweeper and Shutdown run beside them.  A goroutine that is at a *)
(* Lock call stays there until the lock is free.  The pair is one object:  *)
(* a pair made anew after a delete is taken to have the same mutex.        *)
(***************************************************************************)
Forwarders == {"fwdS", "fwdR"}
Threads == Forwarders \cup {"join", "ping", "mon", "sweep", "down"}
Free == [w |-> "none", r |-> {}]

\* The connection a forwarder reads and the slot it clears; the peer's.
Own(f) == IF f = "fwdS" THEN "Sharer" ELSE "Receiver"
PeerOf(f) == IF f = "fwdS" THEN "Receiver" ELSE "Sharer"

\* sync.RWMutex: Lock needs no holder at all, RLock no writer.
CanWLock(l) == l.w = "none" /\ l.r = {}
CanRLock(l) == l.w = "none"

\* rs.mu.RUnlock() after the lookup of the pair, with the RLock kept
\* (mutant).
AfterLookup_Held(readers, f) == readers

\* rs.mu.RUnlock() after the lookup of the pair in forwardMessages.
AfterLookup(readers, f) == readers \ {f}

GorRest ==
    UNCHANGED <<sessVars, fsVars, tunVars, relVars, aeadVars, shareVars, frameVars,
                lockVars, browserVars, noiseVars, valVars>>

\* HandleConnect up to the table lock: GetSession (under sm.mu.RLock), on a
\* session that may be gone, and the upgrade of the connection.
JoinGetSession(exists) ==
    /\ gpc["join"] = "start"
    /\ CanRLock(smmu)
    /\ gpc' = [gpc EXCEPT !["join"] = IF exists THEN "wantTable" ELSE "done"]
    /\ open' = [open EXCEPT !["Receiver"] = exists]
    /\ UNCHANGED <<rsmu, pairmu, smmu, table, slot, cancelled>>
    /\ GorRest

\* rs.mu.Lock() in the handler.
JoinLock ==
    /\ gpc["join"] = "wantTable"
    /\ CanWLock(rsmu)
    /\ rsmu' = [rsmu EXCEPT !.w = "join"]
    /\ gpc' = [gpc EXCEPT !["join"] = "install"]
    /\ UNCHANGED <<pairmu, smmu, table, slot, open, cancelled>>
    /\ GorRest

\* The pair is made with the connection as its Receiver, or the Receiver of
\* the pair in the table is set; rs.mu.Unlock(); go forwardMessages.
JoinInstall ==
    /\ gpc["join"] = "install"
    /\ slot' = IF table THEN [slot EXCEPT !["Receiver"] = TRUE]
               ELSE [Sharer |-> FALSE, Receiver |-> TRUE]
    /\ table' = TRUE
    /\ rsmu' = [rsmu EXCEPT !.w = "none"]
    /\ gpc' = [gpc EXCEPT !["join"] = "touch", !["fwdR"] = "read"]
    /\ UNCHANGED <<pairmu, smmu, open, cancelled>>
    /\ GorRest

\* UpdateActivity at the end of the handler (under sm.mu.Lock).
JoinUpdateActivity ==
    /\ gpc["join"] = "touch"
    /\ CanWLock(smmu)
    /\ gpc' = [gpc EXCEPT !["join"] = "done"]
    /\ UNCHANGED <<rsmu, pairmu, smmu, table, slot, open, cancelled>>
    /\ GorRest

\* forwardMessages: conn.ReadMessage returns a message, or an error (the
\* client went away, the deadline passed, the connection was closed).
ForwardRead(f, ok) ==
    /\ gpc[f] = "read"
    /\ ok => open[Own(f)]
    /\ gpc' = [gpc EXCEPT ![f] = IF ok THEN "lookup" ELSE "closing"]
    /\ UNCHANGED <<rsmu, pairmu, smmu, table, slot, open, cancelled>>
    /\ GorRest

\* rs.mu.RLock() and the lookup of the pair.
ForwardRLock(f) ==
    /\ gpc[f] = "lookup"
    /\ CanRLock(rsmu)
    /\ rsmu' = [rsmu EXCEPT !.r = @ \cup {f}]
    /\ gpc' = [gpc EXCEPT ![f] = "looked"]
    /\ UNCHANGED <<pairmu, smmu, table, slot, open, cancelled>>
    /\ GorRest

\* rs.mu.RUnlock(); without a pair the loop ends.
ForwardRUnlock(f) ==
    /\ gpc[f] = "looked"
    /\ rsmu' = [rsmu EXCEPT !.r = AfterLookup(@, f)]
    /\ gpc' = [gpc EXCEPT ![f] = IF table THEN "wantPair" ELSE "closing"]
    /\ UNCHANGED <<pairmu, smmu, table, slot, open, cancelled>>
    /\ GorRest

\* pair.mu.Lock()
ForwardPairLock(f) ==
    /\ gpc[f] = "wantPair"
    /\ pairmu = "none"
    /\ pairmu' = f
    /\ gpc' = [gpc EXCEPT ![f] = "select"]
    /\ UNCHANGED <<rsmu, smmu, table, slot, open, cancelled>>
    /\ GorRest

\* The target is read from the pair: the peer's handle, or nil; with nil
\* pair.mu.Unlock() follows at once.
ForwardSelect(f) ==
    /\ gpc[f] = "select"
    /\ IF slot[PeerOf(f)]
       THEN /\ gpc' = [gpc EXCEPT ![f] = "write"]
            /\ UNCHANGED pairmu
       ELSE /\ gpc' = [gpc EXCEPT ![f] = "touch"]
            /\ pairmu' = "none"
    /\ UNCHANGED <<rsmu, smmu, table, slot, open, cancelled>>
    /\ GorRest

\* target.WriteMessage is entered.
ForwardWrite(f) ==
    /\ gpc[f] = "write"
    /\ gpc' = [gpc EXCEPT ![f] = "inWrite"]
    /\ UNCHANGED <<rsmu, pairmu, smmu, table, slot, open, cancelled>>
    /\ GorRest

\* target.WriteMessage returns; pair.mu.Unlock(); an error ends the loop.
ForwardWritten(f, ok) ==
    /\ gpc[f] = "inWrite"
    /\ ok => open[PeerOf(f)]
    /\ pairmu' = "none"
    /\ gpc' = [gpc EXCEPT ![f] = IF ok THEN "touch" ELSE "closing"]
    /\ UNCHANGED <<rsmu, smmu, table, slot, open, cancelled>>
    /\ GorRest

\* UpdateActivity at the end of an iteration (under sm.mu.Lock).
ForwardUpdateActivity(f) ==
    /\ gpc[f] = "touch"
    /\ CanWLock(smmu)
    /\ gpc' = [gpc EXCEPT ![f] = "read"]
    /\ UNCHANGED <<rsmu, pairmu, smmu, table, slot, open, cancelled>>
    /\ GorRest

\* The deferred conn.Close().
ForwardClose(f) ==
    /\ gpc[f] = "closing"
    /\ open' = [open EXCEPT ![Own(f)] = FALSE]
    /\ gpc' = [gpc EXCEPT ![f] = "wantTable"]
    /\ UNCHANGED <<rsmu, pairmu, smmu, table, slot, cancelled>>
    /\ GorRest

\* cleanupConnection: rs.mu.Lock()
CleanupLock(f) ==
    /\ gpc[f] = "wantTable"
    /\ CanWLock(rsmu)
    /\ rsmu' = [rsmu EXCEPT !.w = f]
    /\ gpc' = [gpc EXCEPT ![f] = "clear"]
    /\ UNCHANGED <<pairmu, smmu, table, slot, open, cancelled>>
    /\ GorRest

\* cleanupConnection: the slot is cleared, the pair deleted when both slots
\* are nil; the deferred rs.mu.Unlock().
CleanupClear(f) ==
    /\ gpc[f] = "clear"
    /\ slot' = IF table THEN [slot EXCEPT ![Own(f)] = FALSE] ELSE slot
    /\ table' = (table /\ slot[PeerOf(f)])
    /\ rsmu' = [rsmu EXCEPT !.w = "none"]
    /\ gpc' = [gpc EXCEPT ![f] = "done"]
    /\ UNCHANGED <<pairmu, smmu, open, cancelled>>
    /\ GorRest

\* keepAlive: a tick; conn.WriteMessage(PingMessage) is entered.
PingWrite ==
    /\ gpc["ping"] = "tick"
    /\ gpc' = [gpc EXCEPT !["ping"] = "inWrite"]
    /\ UNCHANGED <<rsmu, pairmu, smmu, table, slot, open, cancelled>>
    /\ GorRest

\* The ping's WriteMessage returns; an error ends keepAlive.
PingWritten(ok) ==
    /\ gpc["ping"] = "inWrite"
    /\ ok => open["Sharer"]
    /\ gpc' = [gpc EXCEPT !["ping"] = IF ok THEN "tick" ELSE "done"]
    /\ UNCHANGED <<rsmu, pairmu, smmu, table, slot, open, cancelled>>
    /\ GorRest

\* keepAlive and monitorConnections return on rs.ctx.Done().
ContextDone(t) ==
    /\ cancelled
    /\ t \in {"ping", "mon"}
    /\ gpc[t] \in {"tick", "idle"}
    /\ gpc' = [gpc EXCEPT ![t] = "done"]
    /\ UNCHANGED <<rsmu, pairmu, smmu, table, slot, open, cancelled>>
    /\ GorRest

\* monitorConnections: a tick; rs.mu.Lock()
MonitorLock ==
    /\ gpc["mon"] = "idle"
    /\ CanWLock(rsmu)
    /\ rsmu' = [rsmu EXCEPT !.w = "mon"]
    /\ gpc' = [gpc EXCEPT !["mon"] = "scan"]
    /\ UNCHANGED <<pairmu, smmu, table, slot, open, cancelled>>
    /\ GorRest

\* The monitor's loop over the table: a stale pair has its connections
\* closed and is deleted; rs.mu.Unlock().
MonitorScan(stale) ==
    /\ gpc["mon"] = "scan"
    /\ IF stale /\ table
       THEN /\ open' = [c \in DOMAIN open |-> open[c] /\ ~slot[c]]
            /\ table' = FALSE
       ELSE UNCHANGED <<open, table>>
    /\ rsmu' = [rsmu EXCEPT !.w = "none"]
    /\ gpc' = [gpc EXCEPT !["mon"] = "idle"]
    /\ UNCHANGED <<pairmu, smmu, slot, cancelled>>
    /\ GorRest

\* cleanupExpired of the session manager: sm.mu.Lock() ...
SweepLock ==
    /\ gpc["sweep"] = "idle"
    /\ CanWLock(smmu)
    /\ smmu' = [smmu EXCEPT !.w = "sweep"]
    /\ gpc' = [gpc EXCEPT !["sweep"] = "sweeping"]
    /\ UNCHANGED <<rsmu, pairmu, table, slot, open, cancelled>>
    /\ GorRest

\* ... its loop over the sessions and sm.mu.Unlock().
SweepUnlock ==
    /\ gpc["sweep"] = "sweeping"
    /\ smmu' = [smmu EXCEPT !.w = "none"]
    /\ gpc' = [gpc EXCEPT !["sweep"] = "idle"]
    /\ UNCHANGED <<rsmu, pairmu, table, slot, open, cancelled>>
    /\ GorRest

\* Shutdown: rs.cancel()
ShutdownCancel ==
    /\ gpc["down"] = "idle"
    /\ cancelled' = TRUE
    /\ gpc' = [gpc EXCEPT !["down"] = "wantTable"]
    /\ UNCHANGED <<rsmu, pairmu, smmu, table, slot, open>>
    /\ GorRest

\* Shutdown: rs.mu.Lock()
ShutdownLock ==
    /\ gpc["down"] = "wantTable"
    /\ CanWLock(rsmu)
    /\ rsmu' = [rsmu EXCEPT !.w = "down"]
    /\ gpc' = [gpc EXCEPT !["down"] = "closeAll"]
    /\ UNCHANGED <<pairmu, smmu, table, slot, open, cancelled>>
    /\ GorRest

\* Shutdown: every connection of every pair is closed, the table replaced
\* by an empty one; the deferred rs.mu.Unlock().
ShutdownCloseAll ==
    /\ gpc["down"] = "closeAll"
    /\ open' = IF table THEN [c \in DOMAIN open |-> open[c] /\ ~slot[c]] ELSE open
    /\ table' = FALSE
    /\ rsmu' = [rsmu EXCEPT !.w = "none"]
    /\ gpc' = [gpc EXCEPT !["down"] = "done"]
    /\ UNCHANGED <<pairmu, smmu, slot, cancelled>>
    /\ GorRest

\* The relay with the sharer joined and nothing under way.
GorIdle ==
    /\ gpc = [t \in Threads |->
                IF t = "fwdS" THEN "read" ELSE IF t = "ping" THEN "tick"
                ELSE IF t = "join" THEN "start" ELSE IF t = "fwdR" THEN "unborn"
                ELSE "idle"]
    /\ rsmu = Free
    /\ pairmu = "none"
    /\ smmu = Free
    /\ table = TRUE
    /\ slot = [Sharer |-> TRUE, Receiver |-> FALSE]
    /\ open = [Sharer |-> TRUE, Receiver |-> FALSE]
    /\ cancelled = FALSE

(***************************************************************************)
(* Calls of the session manager by two goroutines, with sm.mu and the      *)
(* deferred functions of ValidatePasscode (part_014:132-179): the padding  *)
(* sleep is deferred first, sm.mu.Unlock second; deferred functions run    *)
(* last-in-first-out when the function returns.                            *)
(***************************************************************************)
MaxValidations == 2

\* The deferred function that runs first at the return, taken from the
\* wrong end of the list (mutant).
DeferIndex_FirstIn(d) == 1

\* The deferred function that runs next at a return: the last one deferred.
DeferIndex(d) == Len(d)

WithoutIndex(d, i) == SubSeq(d, 1, i - 1) \o SubSeq(d, i + 1, Len(d))

ValRest ==
    UNCHANGED <<now, swept, lastCall, wrongRun, fsVars, tunVars, relVars, aeadVars,
                shareVars, frameVars, lockVars, browserVars, noiseVars, gorVars>>

\* ValidatePasscode is entered: start is taken, the padding sleep deferred.
ValidateEnter(g, id, pc) ==
    /\ vpc[g] = "idle"
    /\ validations < MaxValidations
    /\ validations' = validations + 1
    /\ vpc' = [vpc EXCEPT ![g] = "lock"]
    /\ vargs' = [vargs EXCEPT ![g] = [id |-> id, pc |-> pc]]
    /\ deferred' = [deferred EXCEPT ![g] = <<"sleep">>]
    /\ UNCHANGED <<sessions, vmu>>
    /\ ValRest

\* sm.mu.Lock(); defer sm.mu.Unlock()
ValidateLock(g) ==
    /\ vpc[g] = "lock"
    /\ CanLock(vmu)
    /\ vmu' = g
    /\ deferred' = [deferred EXCEPT ![g] = Append(@, "unlock")]
    /\ vpc' = [vpc EXCEPT ![g] = "body"]
    /\ UNCHANGED <<sessions, vargs, validations>>
    /\ ValRest

\* The body up to its return statement.
ValidateBody(g) ==
    /\ vpc[g] = "body"
    /\ sessions' = ValidatePasscodeBody(sessions, vargs[g].id, vargs[g].pc, now).m
    /\ vpc' = [vpc EXCEPT ![g] = "return"]
    /\ UNCHANGED <<vmu, deferred, vargs, validations>>
    /\ ValRest

\* The return runs the next deferred function: sm.mu.Unlock(), or the
\* padding function, which sleeps when time remains of the 100 ms.
ValidateDeferred(g, remaining) ==
    /\ vpc[g] = "return"
    /\ deferred[g] # << >>
    /\ LET i == DeferIndex(deferred[g]) IN
       /\ deferred' = [deferred EXCEPT ![g] = WithoutIndex(@, i)]
       /\ IF deferred[g][i] = "unlock"
          THEN /\ vmu' = "none"
               /\ UNCHANGED vpc
          ELSE /\ vpc' = [vpc EXCEPT ![g] = IF remaining THEN "sleeping" ELSE "return"]
               /\ UNCHANGED vmu
    /\ UNCHANGED <<sessions, vargs, validations>>
    /\ ValRest

\* time.Sleep(remaining) returns.
ValidateWake(g) ==
    /\ vpc[g] = "sleeping"
    /\ vpc' = [vpc EXCEPT ![g] = "return"]
    /\ UNCHANGED <<sessions, vmu, deferred, vargs, validations>>
    /\ ValRest

\* ValidatePasscode has returned to its caller.
ValidateReturn(g) ==
    /\ vpc[g] = "return"
    /\ deferred[g] = << >>
    /\ vpc' = [vpc EXCEPT ![g] = "idle"]
    /\ UNCHANGED <<sessions, vmu, deferred, vargs, validations>>
    /\ ValRest

\* UpdateActivity is called: sm.mu.Lock() ...
ActivityLock(g, id) ==
    /\ vpc[g] = "idle"
    /\ CanLock(vmu)
    /\ vmu' = g
    /\ vpc' = [vpc EXCEPT ![g] = "touch"]
    /\ vargs' = [vargs EXCEPT ![g] = [id |-> id, pc |-> << >>]]
    /\ UNCHANGED <<sessions, deferred, validations>>
    /\ ValRest

\* ... its body and the deferred sm.mu.Unlock().
ActivityUnlock(g) ==
    /\ vpc[g] = "touch"
    /\ sessions' = UpdateActivityMap(sessions, vargs[g].id, now)
    /\ vmu' = "none"
    /\ vpc' = [vpc EXCEPT ![g] = "idle"]
    /\ UNCHANGED <<deferred, vargs, validations>>
    /\ ValRest

\* No call of the manager under way.
ValIdle ==
    /\ vpc = [g \in Goroutines |-> "idle"]
    /\ vmu = "none"
    /\ deferred = [g \in Goroutines |-> << >>]
    /\ vargs = [g \in Goroutines |-> [id |-> UnknownID, pc |-> << >>]]
    /\ validations = 0

\* The variables of the later subsystems while another one runs.
MoreIdle == NoiseIdle /\ GorIdle /\ ValIdle

\* The dispatcher before its first round.
AppIdle ==
    /\ loop = "receiving"
    /\ link = "up"
    /\ rounds = 0
    /\ lastShare = NoShare /\ arrived = << >> /\ replies = << >>
    /\ frameLog = << >>
    /\ LockIdle
    /\ BrowserIdle
    /\ MoreIdle

(***************************************************************************)
(* Frame sizes: protocol.WriteFrame / ReadFrame and the tunnel's SendFrame *)
(* / ReceiveFrame on a payload of a given length.                          *)
(***************************************************************************)
MaxFrames == 2
ErrFrameTooLarge == "frame exceeds maximum size"
FrameSizes == {0, MaxFrameSize, MaxFrameSize + 1, 2 * MaxFrameSize}

\* The error of WriteFrame for a payload of n bytes / of ReadFrame for a
\* length field of n.
WriteFrameErr(n) == IF n > MaxFrameSize THEN ErrFrameTooLarge ELSE Nil
ReadFrameErr(n) == IF n > MaxFrameSize THEN ErrFrameTooLarge ELSE Nil

\* The error of SendFrame / ReceiveFrame on an open tunnel for a frame
\* whose payload has n bytes: the frame is gob-encoded, sealed and written
\* as one message / read as one message, opened and decoded.
SendFrameErr(n) == Nil
ReceiveFrameSizeErr(n) == Nil

FrameEntry(op, n, err) == [op |-> op, size |-> n, err |-> err]

\* sendRawFrame: protocol.WriteFrame of a payload of n bytes.
WriteFrame(n) ==
    /\ Len(frameLog) < MaxFrames
    /\ frameLog' = Append(frameLog, FrameEntry("WriteFrame", n, WriteFrameErr(n)))
    /\ UNCHANGED <<sessVars, fsVars, tunVars, relVars, aeadVars, shareVars, lockVars, browserVars, moreVars>>

\* recvRawFrame: protocol.ReadFrame of a frame whose header announces n bytes.
ReadFrame(n) ==
    /\ Len(frameLog) < MaxFrames
    /\ frameLog' = Append(frameLog, FrameEntry("ReadFrame", n, ReadFrameErr(n)))
    /\ UNCHANGED <<sessVars, fsVars, tunVars, relVars, aeadVars, shareVars, lockVars, browserVars, moreVars>>

\* Tunnel.SendFrame of a frame with a payload of n bytes.
SendFrameOf(n) ==
    /\ Len(frameLog) < MaxFrames
    /\ frameLog' = Append(frameLog, FrameEntry("SendFrame", n, SendFrameErr(n)))
    /\ UNCHANGED <<sessVars, fsVars, tunVars, relVars, aeadVars, shareVars, lockVars, browserVars, moreVars>>

\* Tunnel.ReceiveFrame of a message that holds a frame with n bytes of payload.
ReceiveFrameOf(n) ==
    /\ Len(frameLog) < MaxFrames
    /\ frameLog' = Append(frameLog, FrameEntry("ReceiveFrame", n, ReceiveFrameSizeErr(n)))
    /\ UNCHANGED <<sessVars, fsVars, tunVars, relVars, aeadVars, shareVars, lockVars, browserVars, moreVars>>

\* The host when the share starts: the export root /s with a file and a
\* symlink, the sibling /sx and the directory /o, each with a file.
InitialTree(target) ==
    (<< >> :> DirNode) @@ (<<"s">> :> DirNode) @@ (<<"s", "f">> :> FileNode(<<1>>))
    @@ (<<"s", "l">> :> LinkNode(target))
    @@ (<<"sx">> :> DirNode) @@ (<<"sx", "x">> :> FileNode(<<2>>))
    @@ (<<"o">> :> DirNode) @@ (<<"o", "p">> :> FileNode(<<3>>))

NoFs == [op |-> "none", err |-> Nil, touched |-> {}, accepted |-> {}]

\* The filesystem variables while another subsystem runs.
FsIdle ==
    /\ tree = InitialTree(<<"s", "f">>)
    /\ readOnly = FALSE
    /\ fsOps = 0
    /\ lastFs = NoFs

\* The session variables while another subsystem runs.
SessionIdle ==
    /\ sessions = << >>
    /\ now = 0
    /\ swept = TRUE
    /\ lastCall = NoCall
    /\ wrongRun = << >>

InitFS ==
    /\ TunIdle
    /\ RelIdle
    /\ AeadIdle
    /\ AppIdle
    /\ \E target \in LinkTargets : tree = InitialTree(target)
    /\ readOnly \in BOOLEAN
    /\ fsOps = 0
    /\ lastFs = NoFs
    /\ SessionIdle

NextFS ==
    \/ \E path \in Requests : List(path)
    \/ \E path \in Requests : Stat(path)
    \/ \E path \in Requests : Read(path)
    \/ \E path \in Requests, offset \in {0, 1} : Write(path, offset, <<7>>)
    \/ \E path \in Requests : Delete(path)
    \/ \E oldPath, newPath \in Requests : Rename(oldPath, newPath)
    \/ \E path \in Requests : Mkdir(path)

SpecFS == InitFS /\ [][NextFS]_vars

InitSession == SessionIdle /\ FsIdle /\ TunIdle /\ RelIdle /\ AeadIdle /\ AppIdle

NextSession ==
    \/ \E id \in SessionIDs, pc \in GenPasscodes : CreateSession(id, pc)
    \/ \E id \in AllIDs, pc \in InputPasscodes : ValidatePasscode(id, pc)
    \/ \E id \in AllIDs : UpdateActivity(id)
    \/ \E id \in AllIDs : RevokeSession(id)
    \/ cleanupExpired
    \/ Tick

SpecSession == InitSession /\ [][NextSession]_vars

InitTunnel == SessionIdle /\ FsIdle /\ TunIdle /\ RelIdle /\ AeadIdle /\ AppIdle

NextTunnel ==
    \/ \E id \in SessionIDs, pc \in GenPasscodes : HandleCreateSession(id, pc)
    \/ \E p \in Peers, id \in SessionIDs, pc \in GenPasscodes : NewTunnelDial(p, id, pc)
    \/ \E p \in Peers : performInitiatorHandshakeSend(p)
    \/ \E p \in Peers : performInitiatorHandshakeRecv(p)
    \/ \E p \in Peers : performResponderHandshake(p)
    \/ \E p \in Peers : HandshakeTimeout(p)
    \/ \E p \in Peers : ConnReadError(p)
    \/ \E p \in Peers : SendFrame(p)
    \/ \E p \in Peers : ReceiveFrame(p)
    \/ \E p \in Peers : Close(p)
    \/ \E p \in Peers, writeOk \in BOOLEAN : forwardMessages(p, writeOk)
    \/ \E p \in Peers : forwardExit(p)
    \/ \E p \in Peers, how \in TamperKinds : Tamper(p, how)

SpecTunnel == InitTunnel /\ [][NextTunnel]_vars

\* Whether host path q is the export root or lies below it.
IsUnder(root, q) == Len(q) >= Len(root) /\ SubSeq(q, 1, Len(root)) = root

(***************************************************************************)
(* Claims about session creation, the handshake and the tunnel             *)
(* (SpecTunnel)                                                            *)
(***************************************************************************)

\* The passcodes the relay's session manager holds.
RelayHolds == {sessions[i].Passcode : i \in DOMAIN sessions}

\* C1: the relay never knows a session's passcode: nothing it holds gives,
\* together with the session id, the preshared key a peer derives.
C1_RelayNeverHoldsPasscode ==
    \A p \in Peers : \A i \in DOMAIN sessions : \A pc \in RelayHolds :
        DeriveKey(pc, i) # peer[p].psk

BothDialled == \A p \in Peers : peer[p].psk # NoKey
SamePSK == BothDialled /\ peer["sharer"].psk = peer["connector"].psk
Mismatched == BothDialled /\ peer["sharer"].psk # peer["connector"].psk

HandshakeErrors == {ErrAuthFailed, ErrLowOrder, ErrFrame, ErrFrameType, ErrNotComplete}

\* C4: with the same preshared key on a reliable ordered pipe no side
\* rejects the handshake, a side that has processed its peer's message
\* completes, the initiator completes only after the responder, and when
\* both have completed they hold the same transcript hash and complementary
\* transport keys: the initiator sends under the responder's receive key
\* (label initiator_to_responder) and receives under the responder's send
\* key (label responder_to_initiator).
C4_SameKeyHandshakeAgrees ==
    (SamePSK /\ ~net.tampered) =>
        LET i == peer["connector"]
            r == peer["sharer"]
        IN  /\ i.err \notin HandshakeErrors
            /\ r.err \notin HandshakeErrors
            /\ i.state \in {"established", "closed"} => r.state \in {"established", "closed"}
            /\ (i.state \in {"established", "closed"} /\ r.state \in {"established", "closed"}) =>
                  /\ i.transcript = r.transcript
                  /\ i.sendCipher = r.recvCipher
                  /\ i.recvCipher = r.sendCipher
                  /\ i.sendCipher = <<"sha256", i.transcript,
                                      <<"x25519", {"connector", "sharer"}>>,
                                      "initiator_to_responder">>
                  /\ i.recvCipher = <<"sha256", i.transcript,
                                      <<"x25519", {"connector", "sharer"}>>,
                                      "responder_to_initiator">>

\* Both sides have completed the handshake with the same key and the
\* responder has accepted a frame the initiator sealed.
C4_Witness ==
    /\ SamePSK /\ ~net.tampered
    /\ peer["connector"].state = "established"
    /\ peer["sharer"].state = "established"
    /\ peer["sharer"].appAccepted = 1

\* C5: with preshared keys derived from different passcodes neither
\* NewTunnel call returns a tunnel, and once the responder has rejected the
\* initiator's message the initiator's pending call, too, ends with the
\* authentication error.
C5_MismatchBothSeeAuthError ==
    [][(Mismatched /\ ~net.tampered) =>
          /\ \A p \in Peers : peer'[p].state \notin {"established", "closed"}
          /\ (/\ peer["sharer"].err = ErrAuthFailed
              /\ peer["connector"].state = "awaitResp"
              /\ peer'["connector"].state = "failed")
                => peer'["connector"].err = ErrAuthFailed]_vars

AllSeen == [type |-> TRUE, dec |-> TRUE, proof |-> TRUE]

\* C6: a peer holds a tunnel with send and receive ciphers only after its
\* peer's handshake message arrived with the expected frame type, opened
\* and carried a valid proof; a peer whose handshake failed has its
\* connection closed, holds no cipher and has sent and accepted no
\* application frame.
C6_TunnelOnlyAfterVerifiedPeer ==
    \A p \in Peers :
        /\ peer[p].state \in {"established", "closed"} =>
              /\ peer[p].seen = AllSeen
              /\ peer[p].sendCipher # NoKey
              /\ peer[p].recvCipher # NoKey
        /\ (peer[p].sendCipher # NoKey \/ peer[p].recvCipher # NoKey
              \/ peer[p].appSent > 0 \/ peer[p].appAccepted > 0) =>
              /\ peer[p].state \in {"established", "closed"}
              /\ peer[p].seen = AllSeen
        /\ peer[p].state = "failed" =>
              /\ ~peer[p].connOpen
              /\ peer[p].sendCipher = NoKey /\ peer[p].recvCipher = NoKey
              /\ peer[p].appSent = 0 /\ peer[p].appAccepted = 0

\* The responder holds a tunnel and has sent a frame on it, while the
\* initiator's handshake failed on an altered response.
C6_Witness ==
    /\ net.tampered
    /\ peer["sharer"].state = "established"
    /\ peer["sharer"].appSent = 1
    /\ peer["connector"].state = "failed"
    /\ peer["connector"].err = ErrAuthFailed

(***************************************************************************)
(* Claims about the secure filesystem (SpecFS)                             *)
(***************************************************************************)

\* C2: sanitizePath accepts only paths that equal the export root or lie
\* below it component by component; a sibling directory whose name merely
\* starts with the root's name is never accepted.
C2_AcceptedOnlyUnderRoot ==
    \A q \in lastFs.accepted : IsUnder(rootPath, q)

\* C3: every filesystem operation either fails with the traversal or the
\* invalid-path error or touches only objects inside the export root.
C3_TouchesOnlyInsideRoot ==
    lastFs.err \notin {ErrPathTraversal, ErrInvalidPath}
        => \A q \in lastFs.touched : IsUnder(rootPath, q)

(***************************************************************************)
(* The session manager with two ids in play (SpecManager)                  *)
(***************************************************************************)

TwoIDs == {"7F9Q2A", "K3M8XZ"}
MaxManagerTime == 2
ManagerPasscodes == {<<4, 9>>, <<9, 4>>}

\* CreateSession's id loop taking the first id drawn.
FirstFree_NoReroll(m, rolls) == rolls[1]

\* CreateSession's id loop: the ids GenerateSessionID returns are drawn in
\* turn until one is not a key of the map.
FirstFree(m, rolls) ==
    LET free == {i \in 1..Len(rolls) : rolls[i] \notin DOMAIN m} IN
    rolls[CHOOSE i \in free : \A j \in free : i <= j]

\* CreateSession with the ids its loop draws; the loop ends at the first
\* free one.
CreateSessionLoop(rolls, pc) ==
    /\ \E i \in 1..Len(rolls) : rolls[i] \notin DOMAIN sessions
    /\ LET id == FirstFree(sessions, rolls) IN
       /\ sessions' = CreateSessionMap(sessions, id, pc, now)
       /\ wrongRun' = [k \in DOMAIN sessions' |-> IF k = id THEN 0 ELSE wrongRun[k]]
       /\ lastCall' = [op |-> "CreateSession", id |-> id, rolls |-> rolls]
    /\ UNCHANGED <<now, swept, fsVars, tunVars, relVars, aeadVars, appVars>>

\* Time passes within the horizon of this specification.
ManagerTick == now < MaxManagerTime /\ Tick

NextManager ==
    \/ \E a, b \in TwoIDs : CreateSessionLoop(<<a, b>>, <<4, 9>>)
    \/ \E id \in TwoIDs \cup {UnknownID}, pc \in ManagerPasscodes : ValidatePasscode(id, pc)
    \/ \E id \in TwoIDs : RevokeSession(id)
    \/ cleanupExpired
    \/ ManagerTick

SpecManager == InitSession /\ [][NextManager]_vars

\* C11: a CreateSession call leaves every record the manager holds as it
\* was and stores the new session under an id the manager did not hold;
\* every record is held under its own id.
C11_CreateNeverReplaces ==
    [][lastCall'.op = "CreateSession" =>
          /\ \A k \in DOMAIN sessions : k \in DOMAIN sessions' /\ sessions'[k] = sessions[k]
          /\ \A k \in DOMAIN sessions' : sessions'[k].ID = k
          /\ sessions' # sessions =>
                /\ lastCall'.id \notin DOMAIN sessions
                /\ DOMAIN sessions' = DOMAIN sessions \cup {lastCall'.id}]_vars

\* A session was created after its loop first drew the id of a session the
\* manager holds, which by then had failed attempts on record.
C11_Witness ==
    /\ lastCall.op = "CreateSession"
    /\ lastCall.rolls[1] # lastCall.id
    /\ lastCall.rolls[1] \in DOMAIN sessions
    /\ sessions[lastCall.rolls[1]].FailedAttempts > 0

AllConns == {ConnIDs[i] : i \in 1..Len(ConnIDs)}

\* The relay holds one session, created when the clock started.
InitRelay ==
    /\ sessions = CreateSessionMap(<< >>, "7F9Q2A", <<4, 9>>, 0)
    /\ now = 0
    /\ swept = TRUE
    /\ lastCall = NoCall
    /\ wrongRun = [k \in {"7F9Q2A"} |-> 0]
    /\ FsIdle /\ TunIdle /\ RelIdle /\ AeadIdle /\ AppIdle

\* Bounds of the relay under time: connections upgraded, messages sent.
MaxTimedConns == 2
MaxTimedMsgs == 1

TimedRoom == Len(ConnIDs) - Cardinality(Unused) < MaxTimedConns

NextRelay ==
    \/ \E id \in AllIDs : TimedRoom /\ HandleShare(id)
    \/ \E id \in AllIDs : TimedRoom /\ HandleConnect(id)
    \/ \E c \in AllConns : SentUpTo(Len(ConnIDs)) < MaxTimedMsgs /\ ClientSend(c)
    \/ \E c \in AllConns : ClientClose(c)
    \/ \E c \in AllConns, writeOk \in BOOLEAN : ForwardOne(c, writeOk)
    \/ \E c \in AllConns : ForwardReadError(c)
    \/ monitorConnections
    \/ cleanupExpired
    \/ RelayTick

SpecRelay == InitRelay /\ [][NextRelay]_vars

\* The relay holds two sessions and the clock stands still.
InitPairs ==
    /\ sessions = CreateSessionMap(CreateSessionMap(<< >>, "7F9Q2A", <<4, 9>>, 0),
                                   "K3M8XZ", <<7, 1>>, 0)
    /\ now = 0
    /\ swept = TRUE
    /\ lastCall = NoCall
    /\ wrongRun = [k \in TwoIDs |-> 0]
    /\ FsIdle /\ TunIdle /\ RelIdle /\ AeadIdle /\ AppIdle

NextPairs ==
    \/ \E id \in TwoIDs : HandleShare(id)
    \/ \E id \in TwoIDs : HandleConnect(id)
    \/ \E c \in AllConns : ClientSend(c)
    \/ \E c \in AllConns : ClientClose(c)
    \/ \E c \in AllConns, writeOk \in BOOLEAN : ForwardOne(c, writeOk)
    \/ \E c \in AllConns : ForwardReadError(c)

SpecPairs == InitPairs /\ [][NextPairs]_vars

\* The relay has just read message n of connection c with the other slot
\* of the pair empty / some client has been handed message n of c.
ReadForEmptySlot(c, n) ==
    /\ lastRelay.op = "forward" /\ lastRelay.conn = c /\ lastRelay.n = n
    /\ lastRelay.to = "none" /\ lastRelay.status = 1
    /\ conn[c].sess \in DOMAIN connections
    /\ RelayTarget(connections[conn[c].sess], conn[c].isSharer) = "none"
Delivered(c, n) ==
    \E d \in AllConns : \E i \in 1..Len(conn[d].got) :
        conn[d].got[i] = [from |-> c, n |-> n]

\* C38: a message the relay reads while the other slot of the pair is
\* empty is handed to no client then or ever after, and the connection it
\* came from stays open with its forwarder running.
C38_NoBuffering ==
    \A c \in AllConns, n \in 1..MaxMsgs :
        [](ReadForEmptySlot(c, n) =>
              /\ conn[c].relay = "open" /\ conn[c].fwd = "running"
              /\ [](~Delivered(c, n)))

\* The sharer's first message was read before the receiver joined; the
\* receiver, joined since, has been handed the second message only.
C38_Witness ==
    \E c, d \in AllConns :
        /\ conn[c].isSharer /\ conn[c].sent = 2 /\ conn[c].up = << >>
        /\ ~conn[d].isSharer /\ conn[d].sess = conn[c].sess
        /\ conn[d].got = <<[from |-> c, n |-> 2]>>

(***************************************************************************)
(* Claims about the relay (SpecRelay, SpecPairs)                           *)
(***************************************************************************)

\* The step taken is a step of the relay of kind op.
RelayDid(op) == lastRelay' # lastRelay /\ lastRelay'.op = op

\* The manager holds session id, neither locked nor past a time limit.
SessionLive(m, id, t) == id \in DOMAIN m /\ ~m[id].Locked /\ ~SweepExpired(m[id], t)

\* C12: the relay writes a message to a connection only for a session the
\* manager holds that is neither expired nor locked.
C12_NoForwardAfterExpiry ==
    [][(RelayDid("forward") /\ lastRelay'.to # "none")
          => SessionLive(sessions, lastRelay'.sess, now)]_vars

\* C13: a share or connect request for a session that is unknown, expired
\* or locked gets a 4xx status; no connection is installed and no forwarder
\* is started.
C13_StaleSessionRejected ==
    [][((RelayDid("HandleShare") \/ RelayDid("HandleConnect"))
         /\ ~SessionLive(sessions, lastRelay'.sess, now))
          => /\ lastRelay'.status = 404
             /\ connections' = connections
             /\ conn' = conn]_vars

\* Both slots of the session's pair hold a connection open at both ends.
BothConnected(id) ==
    /\ id \in DOMAIN connections
    /\ connections[id].Sharer # "none" /\ Connected(conn, connections[id].Sharer)
    /\ connections[id].Receiver # "none" /\ Connected(conn, connections[id].Receiver)

\* The messages written to every connection that came from one connection
\* carry increasing numbers.
InSendOrder(cs) ==
    \A d \in AllConns : \A i, j \in 1..Len(cs[d].got) :
        (i < j /\ cs[d].got[i].from = cs[d].got[j].from) => cs[d].got[i].n < cs[d].got[j].n

C15_SlotKeptWhileConnected ==
    [][lastRelay'.op # "monitor" =>
          \A id \in DOMAIN connections :
              /\ (connections[id].Sharer # "none"
                    /\ Connected(conn', connections[id].Sharer))
                  => (id \in DOMAIN connections' /\ connections'[id].Sharer # "none")
              /\ (connections[id].Receiver # "none"
                    /\ Connected(conn', connections[id].Receiver))
                  => (id \in DOMAIN connections' /\ connections'[id].Receiver # "none")]_vars

\* C16: a forwarder's round or end for a connection of one session leaves
\* the pair of every other session, and the connections of every other
\* session, as they were.
C16_OtherSessionsUntouched ==
    [][(RelayDid("forward") \/ RelayDid("readError")) =>
          LET id == conn[lastRelay'.conn].sess IN
          /\ \A k \in DOMAIN connections \ {id} :
                k \in DOMAIN connections' /\ connections'[k] = connections[k]
          /\ \A e \in AllConns : conn[e].sess # id => conn'[e] = conn[e]]_vars

\* The forwarder of a receiver of one session has ended while the other
\* session's pair holds a receiver.
C16_Witness ==
    /\ lastRelay.op = "readError"
    /\ lastRelay.sess = "7F9Q2A"
    /\ ~conn[lastRelay.conn].isSharer
    /\ "K3M8XZ" \in DOMAIN connections
    /\ connections["K3M8XZ"].Receiver # "none"

\* C17: a run of the monitor removes exactly the pairs whose last activity
\* is more than 30 minutes old.
C17_MonitorRemovesExactlyStale ==
    [][RelayDid("monitor") =>
          \A id \in DOMAIN connections :
              id \notin DOMAIN connections'
                  <=> now - connections[id].lastSeen > StaleLimit]_vars

\* C18: a message of a connection is written to the session's peer only
\* when no other connected connection of the same endpoint has had a
\* message written to that peer.
C18_OneForwardedPerRole ==
    [][(RelayDid("forward") /\ lastRelay'.to # "none") =>
          LET c == lastRelay'.conn
              d == lastRelay'.to
          IN  \A i \in 1..Len(conn[d].got) :
                  LET c2 == conn[d].got[i].from IN
                  (c2 # c /\ conn[c2].sess = conn[c].sess
                     /\ conn[c2].isSharer = conn[c].isSharer)
                      => ~Connected(conn, c2)]_vars

(***************************************************************************)
(* SpecAead: one direction of an established tunnel.                       *)
(***************************************************************************)
InitAead == SessionIdle /\ FsIdle /\ TunIdle /\ RelIdle /\ AeadIdle /\ AppIdle

NextAead ==
    \/ \E g \in Goroutines : SendFrameLock(g)
    \/ \E g \in Goroutines : EncryptLoad(g)
    \/ \E g \in Goroutines, rnd \in Rand, randOk \in BOOLEAN : EncryptSeal(g, rnd, randOk)
    \/ \E g \in Goroutines, ok \in BOOLEAN : SendFrameWrite(g, ok)
    \/ CloseSender
    \/ \E record \in Deliverable : ReceiveRecord(record)

SpecAead == InitAead /\ [][NextAead]_vars

(***************************************************************************)
(* Claims about the sealed records (SpecAead)                              *)
(***************************************************************************)

\* The counters of the records in a sequence are strictly increasing.
CountersIncrease(records) ==
    \A i, j \in 1..Len(records) :
        i < j => Less64(records[i].nonce.counter, records[j].nonce.counter)

\* C19: the send counter starts at 0; it changes only by the encryption of
\* a SendFrame call whose goroutine holds the tunnel's lock, every such
\* encryption adds exactly 1, and the result is greater than the counter
\* was (no wrap); the counters of the records written to the connection
\* are strictly increasing, so no two records carry the same counter.
C19_SendCounter ==
    /\ nonce = Zero64
    /\ [][/\ (nonce' # nonce) =>
                (\E g \in Goroutines :
                    /\ mu = g /\ call[g].pc = "store" /\ call'[g].pc # "store"
                    /\ \A h \in Goroutines \ {g} : call[h].pc = "idle")
          /\ \A k \in Goroutines :
                (call[k].pc = "store" /\ call'[k].pc # "store")
                    => (nonce' = Inc64(nonce) /\ Less64(nonce, nonce'))
          /\ CountersIncrease(written')]_vars

\* Both goroutines have had a record written, one of them after a call
\* whose encryption failed.
C19_Witness ==
    /\ Len(written) = 2
    /\ written[1].plain # written[2].plain
    /\ written[2].nonce.counter = Inc64(Inc64(Inc64(Zero64)))

\* C20: the records ReceiveFrame accepted carry strictly increasing
\* counters: no record is accepted twice, none after a later one.
C20_NoReplayAccepted == CountersIncrease(opened)

(***************************************************************************)
(* SpecShare: the sharer's request loop on an established tunnel.          *)
(***************************************************************************)
InitShare ==
    /\ SessionIdle /\ TunIdle /\ RelIdle /\ AeadIdle /\ AppIdle
    /\ tree = InitialTree(<<"s", "f">>)
    /\ readOnly \in BOOLEAN
    /\ fsOps = 0
    /\ lastFs = NoFs

NextShare == \E in \in ShareInputs : handleShareRequests(in)

SpecShare == InitShare /\ [][NextShare]_vars

(***************************************************************************)
(* Claims about the sharer's dispatcher (SpecShare)                        *)
(***************************************************************************)

\* The errors of ReceiveFrame that come from the tunnel: the read failed or
\* the record did not open.
TunnelErrors == {ErrReceive, ErrDecrypt}

\* C21: a round whose ReceiveFrame fails with a tunnel-level error ends the
\* request loop; the loop does not go on to receive again.
C21_TunnelErrorEndsLoop ==
    [][(rounds' # rounds /\ lastShare'.err \in TunnelErrors) => loop' = "returned"]_vars

\* The frame types processRequest serves.
RequestTypes ==
    {FrameTypePing, FrameTypeList, FrameTypeStat, FrameTypeRead, FrameTypeWrite,
     FrameTypeDelete, FrameTypeRename, FrameTypeMkdir}

\* C22: a round that receives a frame (its record opened and decoded) whose
\* type is not a request type, or whose payload does not decode as the
\* request of its type, sends an error frame as reply, and the loop goes on.
C22_BadRequestGetsErrorFrame ==
    [][(rounds' # rounds /\ lastShare'.err \in {Nil, ErrUnknownFrameType}
          /\ (lastShare'.frame.type \notin RequestTypes
                \/ (lastShare'.frame.type # FrameTypePing /\ ~lastShare'.frame.decodes)))
          => (lastShare'.reply.type = FrameTypeError /\ loop' = "receiving")]_vars

\* A served filesystem request named a path that sanitizePath refused as a
\* traversal / named a file that does not exist inside the root.
Served23 == lastShare.hasFrame /\ lastShare.frame.decodes
               /\ lastShare.frame.type \in RequestTypes \ {FrameTypePing}
RefusedPath ==
    /\ Served23
    /\ lastShare.reply.message = ErrPathTraversal
MissingFile ==
    /\ Served23
    /\ lastShare.frame.type \in {FrameTypeList, FrameTypeStat, FrameTypeRead}
    /\ LET sp == sanitizePath(lastShare.before, lastShare.frame.path) IN
       sp.err = Nil /\ ~EvalSymlinks(lastShare.before, sp.path).ok

\* C23: the error frame of a failed filesystem request carries the code of
\* the kind of failure: InvalidPath for a path that fails confinement,
\* NotFound for a missing file, PermissionDenied for a mutation in
\* read-only mode, IO for an invalid read offset.
C23_ErrorCodeMatchesFailure ==
    /\ RefusedPath => lastShare.reply.code = ErrCodeInvalidPath
    /\ MissingFile => lastShare.reply.code = ErrCodeNotFound
    /\ (Served23 /\ lastShare.reply.message = ErrPermissionDenied)
          => lastShare.reply.code = ErrCodePermission
    /\ (Served23 /\ lastShare.reply.message = ErrInvalidOffset)
          => lastShare.reply.code = ErrCodeIO

(***************************************************************************)
(* SpecRoot: delete, rename and mkdir requests that name the export root,  *)
(* on trees whose symlink /s/l points at the root, into it or out of it.   *)
(***************************************************************************)
RootRequests ==
    {Abs(<< >>), Rel(<<".">>), Rel(<<"l">>), Abs(<<"f">>), Rel(<<"g">>),
     Abs(<<"l", "f">>), Rel(<<"g", "..">>)}

InitRoot ==
    /\ SessionIdle /\ TunIdle /\ RelIdle /\ AeadIdle /\ AppIdle
    /\ \E target \in {rootPath, <<"s", "f">>, <<"o">>} : tree = InitialTree(target)
    /\ readOnly = FALSE
    /\ fsOps = 0
    /\ lastFs = NoFs

NextRoot ==
    \/ \E path \in RootRequests : Delete(path)
    \/ \E oldPath, newPath \in RootRequests : Rename(oldPath, newPath)
    \/ \E path \in RootRequests : Mkdir(path)

SpecRoot == InitRoot /\ [][NextRoot]_vars

(***************************************************************************)
(* Claims about the read-only mode and the export root (SpecFS, SpecRoot)  *)
(***************************************************************************)

\* What list, stat and read return on tree t in read-write mode.
ReadWriteAnswers(t) ==
    UNION {{Served("list", FsList(t, p), Accepted(t, {p})),
            Served("stat", FsStat(t, p), Accepted(t, {p})),
            Served("read", FsRead(t, p), Accepted(t, {p}))} : p \in Requests}

\* C24: in read-only mode every write, delete, rename and mkdir request
\* fails with the permission-denied error, whatever its path, and no
\* request changes the tree; list, stat and read return what they return
\* in read-write mode on the same tree.
C24_ReadOnlyRejectsMutations ==
    [][readOnly =>
          /\ tree' = tree
          /\ fsOps' # fsOps =>
                (lastFs'.err = ErrPermissionDenied /\ lastFs'.touched = {})
          /\ (fsOps' = fsOps /\ lastFs' # lastFs) => lastFs' \in ReadWriteAnswers(tree)]_vars

\* Two mutating requests were refused in read-only mode, the last a write.
C24_Witness ==
    /\ readOnly
    /\ fsOps = MaxFsOps
    /\ lastFs.op = "write"
    /\ lastFs.err = ErrPermissionDenied

\* C25: the export root stays a directory at its path; a delete or rename
\* one of whose paths resolves to the root is refused and leaves the tree
\* as it was.
C25_RootNeverRemoved ==
    [][/\ rootPath \in DOMAIN tree' /\ tree'[rootPath].kind = "dir"
       /\ (fsOps' # fsOps /\ lastFs'.op \in {"delete", "rename"}
              /\ rootPath \in lastFs'.accepted)
             => (tree' = tree /\ lastFs'.err # Nil)]_vars

\* A rename onto the symlink that points at the root was refused after a
\* delete inside the root went through.
C25_Witness ==
    /\ lastFs.op = "rename"
    /\ lastFs.err = "cannot rename root directory"
    /\ rootPath \in lastFs.accepted
    /\ <<"s", "f">> \notin DOMAIN tree
    /\ <<"s", "l">> \in DOMAIN tree

(***************************************************************************)
(* SpecRead: Read's offset and length arithmetic on files of several       *)
(* sizes, for int64 offsets and lengths up to the ends of the range.       *)
(***************************************************************************)
ReadSizes == {0, 3, maxReadSize + 2}
ReadOffsets ==
    {I64(n) : n \in {-1, 0, 1, 3, 4, maxReadSize + 2, maxReadSize + 3}}
    \cup {MaxInt64, MinInt64}
ReadLengths ==
    {I64(n) : n \in {-1, 0, 1, 2, 3, 4, maxReadSize, maxReadSize + 1, maxReadSize + 5}}
    \cup {MaxInt64, MinInt64, Sub64(MaxInt64, I64(1))}

InitRead == SessionIdle /\ FsIdle /\ TunIdle /\ RelIdle /\ AeadIdle /\ AppIdle

NextRead ==
    \E size \in ReadSizes, offset \in ReadOffsets, length \in ReadLengths :
        ReadAt(size, offset, length)

SpecRead == InitRead /\ [][NextRead]_vars

\* The relay's limit on one message (conn.SetReadLimit in both handlers):
\* ReadMessage of a longer one fails, which ends forwardMessages and
\* closes the connection it read from.
maxMessageSize == 2097152
ErrReadLimit == "websocket: read limit exceeded"
RelayReadErr(len) == IF len > maxMessageSize THEN ErrReadLimit ELSE Nil

\* The message SendFrame writes for a frame that carries n bytes of file
\* data: Encrypt puts the 24-byte nonce in front of the sealed bytes and
\* Seal appends its 16-byte tag; the gob encoding of the frame around the
\* data only adds to it.
NonceSizeX == 24
Overhead == 16
SealedLen(n) == NonceSizeX + n + Overhead

\* C37: the message that carries the reply to a read the filesystem
\* served is within the relay's limit for one message, so the relay reads
\* it without error.
C37_ReadReplyCrossesRelay ==
    (lastFs.op = "readAt" /\ lastFs.err = Nil) =>
        RelayReadErr(SealedLen(Val64(lastFs.n))) = Nil

Min(a, b) == IF a < b THEN a ELSE b

\* C26: for a file of size S, read fails when offset < 0 or offset > S;
\* otherwise it returns min(S - offset, 10 MiB) bytes when length <= 0 or
\* length > S - offset, and min(length, 10 MiB) bytes when
\* 0 < length <= S - offset.
C26_ReadLength ==
    lastFs.op = "readAt" =>
        IF SLess64(lastFs.offset, I64(0)) \/ SLess64(I64(lastFs.size), lastFs.offset)
        THEN lastFs.err # Nil
        ELSE LET rest == lastFs.size - Val64(lastFs.offset) IN
             /\ lastFs.err = Nil
             /\ lastFs.n =
                   IF ~SLess64(I64(0), lastFs.length) \/ SLess64(I64(rest), lastFs.length)
                   THEN I64(Min(rest, maxReadSize))
                   ELSE I64(Min(Val64(lastFs.length), maxReadSize))

\* A read at offset 1 of a 3-byte file with the largest length, for which
\* offset + length overflows, returned the 2 bytes left.
C26_Witness ==
    /\ lastFs.op = "readAt"
    /\ lastFs.size = 3
    /\ lastFs.offset = I64(1)
    /\ lastFs.length = MaxInt64
    /\ IsNeg64(Add64(lastFs.offset, lastFs.length))
    /\ lastFs.err = Nil
    /\ lastFs.n = I64(2)

(***************************************************************************)
(* SpecFrame: frames of several payload sizes through the codec and the    *)
(* tunnel.                                                                 *)
(***************************************************************************)
InitFrame == SessionIdle /\ FsIdle /\ TunIdle /\ RelIdle /\ AeadIdle /\ AppIdle

NextFrame ==
    \/ \E n \in FrameSizes : WriteFrame(n)
    \/ \E n \in FrameSizes : ReadFrame(n)
    \/ \E n \in FrameSizes : SendFrameOf(n)
    \/ \E n \in FrameSizes : ReceiveFrameOf(n)

SpecFrame == InitFrame /\ [][NextFrame]_vars

\* C27: every frame whose payload exceeds 1 MiB is refused with the
\* frame-too-large error, by WriteFrame and ReadFrame and by the tunnel's
\* SendFrame and ReceiveFrame.
C27_NoFrameOverLimit ==
    \A i \in 1..Len(frameLog) :
        frameLog[i].size > MaxFrameSize => frameLog[i].err = ErrFrameTooLarge

\* C31: the message of an error frame the sharer sends never contains the
\* text of the export root's host path.
C31_NoRootInErrorMessage ==
    lastShare.reply.type = FrameTypeError =>
        ~ContainsText(lastShare.text, PathText(rootPath))

\* The numbers of the rounds of a log, in order.
RoundsOf(log) == [i \in 1..Len(log) |-> log[i].n]

\* C33: the loop calls SendFrame exactly once for every frame it has
\* received, with a response, error or pong frame, before it receives
\* again, so the replies are in the order of arrival; a request that fails
\* in the filesystem gets an error frame and leaves the loop receiving on
\* an open tunnel, and a valid request after it is served.
C33_OneReplyPerRequestInOrder ==
    [][/\ RoundsOf(replies') = arrived'
       /\ \A i \in 1..Len(replies') :
            replies'[i].type \in {FrameTypeResponse, FrameTypeError, FrameTypePong}
       /\ (rounds' # rounds /\ lastShare'.hasFrame) =>
            /\ Len(replies') = Len(replies) + 1
            /\ replies'[Len(replies')].n = rounds'
            /\ replies'[Len(replies')].type = lastShare'.reply.type
            /\ (processRequest(lastShare'.frame, tree, readOnly).reply.type
                    = FrameTypeError)
                  => /\ loop' = "receiving" /\ ~closed' /\ link' = link
                     /\ lastShare'.reply.type = FrameTypeError
            /\ (lastShare.reply.type = FrameTypeError
                  /\ lastShare'.frame = RequestFrame(FrameTypeStat, TRUE, Abs(<<"f">>),
                                                     Rel(<<"g">>), 0)
                  /\ <<"s", "f">> \in DOMAIN tree)
                  => lastShare'.reply.type = FrameTypeResponse]_vars

\* A failed request was answered with an error frame and the stat after it
\* with a response.
C33_Witness ==
    /\ Len(replies) = 2
    /\ replies[1].type = FrameTypeError
    /\ replies[2].type = FrameTypeResponse
    /\ lastShare.frame.type = FrameTypeStat
    /\ arrived = <<1, 2>>

\* The host path a request path names below the root, read lexically.
FullPath(path) == Join(rootPath, TrimPrefixSeparator(Clean(path)))

\* A path below the root that does not exist in t and whose existing
\* ancestors are all directories.
NewBelowRoot(t, full) ==
    /\ Len(full) > Len(rootPath)
    /\ SubSeq(full, 1, Len(rootPath)) = rootPath
    /\ full \notin DOMAIN t
    /\ \A k \in 1..Len(full) :
         SubSeq(full, 1, k) \in DOMAIN t => t[SubSeq(full, 1, k)].kind = "dir"

\* C34: in read-write mode a mkdir request for a new path below the root
\* succeeds and leaves the directory and all its ancestors in the tree,
\* however many of its trailing components were missing.
C34_MkdirCreatesParents ==
    (/\ Served23
     /\ lastShare.frame.type = FrameTypeMkdir
     /\ ~readOnly
     /\ NewBelowRoot(lastShare.before, FullPath(lastShare.frame.path)))
    => /\ lastShare.reply.type = FrameTypeResponse
       /\ \A k \in Len(rootPath)..Len(FullPath(lastShare.frame.path)) :
            LET dir == SubSeq(FullPath(lastShare.frame.path), 1, k) IN
            dir \in DOMAIN tree /\ tree[dir].kind = "dir"

(***************************************************************************)
(* SpecLock: the methods of one tunnel called from two goroutines.         *)
(***************************************************************************)
InitLock == SessionIdle /\ FsIdle /\ TunIdle /\ RelIdle /\ AeadIdle /\ AppIdle

NextLock ==
    \/ \E g \in Goroutines, op \in TunnelOps : TunnelCall(g, op)
    \/ \E g \in Goroutines : TunnelLock(g)
    \/ \E g \in Goroutines : TunnelClose(g)
    \/ \E g \in Goroutines, ok \in BOOLEAN : TunnelSend(g, ok)
    \/ \E g \in Goroutines : TunnelReceive(g)
    \/ \E g \in Goroutines, ok \in BOOLEAN : TunnelReadReturns(g, ok)

SpecLock == InitLock /\ [][NextLock]_vars

\* C28: the connection is closed at most once; once the tunnel is closed
\* (a Close has returned) a further Close returns nil and changes nothing,
\* and a SendFrame or ReceiveFrame returns "tunnel closed" without a write
\* to or a read from the connection.
C28_CloseOnce ==
    [][/\ closes' <= 1
       /\ \A g \in Goroutines :
            (closed /\ thread[g].pc = "locked" /\ thread'[g].pc # "locked") =>
                /\ thread'[g].pc = "idle"
                /\ closes' = closes /\ connIO' = connIO /\ closed'
                /\ ret'[g].err = IF thread[g].op = "Close" THEN Nil
                                 ELSE ErrTunnelClosed]_vars

\* After a Close, a second Close and a SendFrame have returned.
C28_Witness ==
    /\ closed /\ closes = 1
    /\ ret["g1"] = [op |-> "Close", err |-> Nil]
    /\ ret["g2"] = [op |-> "SendFrame", err |-> ErrTunnelClosed]
    /\ calls = MaxCalls

\* C29: a SendFrame or Close that has been called is never kept waiting
\* for the lock by a ReceiveFrame that waits for a message.
C29_ReceiveDoesNotBlockSend ==
    \A g, h \in Goroutines :
        (thread[g].pc = "reading" /\ thread[h].pc = "wait"
            /\ thread[h].op \in {"SendFrame", "Close"}) => mu # g

(***************************************************************************)
(* SpecBrowser: the connector's file browser over an established tunnel.   *)
(***************************************************************************)
\* StartFileBrowser: newModel, then the program runs m.Init(), which is
\* the first loadDirectory.
InitBrowser ==
    /\ SessionIdle /\ FsIdle /\ TunIdle /\ RelIdle /\ AeadIdle
    /\ loop = "receiving" /\ link = "up" /\ rounds = 0 /\ lastShare = NoShare /\ arrived = << >> /\ replies = << >>
    /\ frameLog = << >>
    /\ LockIdle
    /\ model = [path |-> 0, hasItems |-> FALSE, hasParent |-> FALSE,
            isDownloading |-> FALSE, error |-> Nil]
    /\ cmd = [c \in Cmds |-> IF c = CmdOrder[1] THEN loadDirectory(0) ELSE FreeCmd]
    /\ toSharer = << >>
    /\ fromSharer = << >>
    /\ nreq = 0
    /\ ticks = 0
    /\ lastGot = NoGot
    /\ MoreIdle

NextBrowser ==
    \/ \E item \in Items : handleEnterKey(item)
    \/ handleBackspaceKey
    \/ \E chunks \in 0..MaxChunks : handleDownloadKey(chunks)
    \/ \E c \in Cmds : SendRequest(c)
    \/ \E c \in Cmds : ReceiveLock(c)
    \/ \E c \in Cmds : ReceiveResponse(c)
    \/ SharerAnswers
    \/ \E c \in Cmds : Update(c)
    \/ downloadReset

SpecBrowser == InitBrowser /\ [][NextBrowser]_vars

\* C30: at most one request of the connector awaits its response at any
\* time, and the response a command consumes is the one to its own request.
C30_ExchangesDoNotInterleave ==
    /\ Len(toSharer) + Len(fromSharer) <= 1
    /\ lastGot.of = lastGot.want

(***************************************************************************)
(* SpecNoise: the methods of one handshake object, of either role.         *)
(***************************************************************************)
InitNoise ==
    /\ SessionIdle /\ FsIdle /\ TunIdle /\ RelIdle /\ AeadIdle
    /\ loop = "receiving" /\ link = "up" /\ rounds = 0 /\ lastShare = NoShare /\ arrived = << >> /\ replies = << >>
    /\ frameLog = << >>
    /\ LockIdle
    /\ BrowserIdle
    /\ hs \in {NewNoiseHandshake(NoisePSK, initiator, "own") : initiator \in BOOLEAN}
    /\ hsDone = {}
    /\ hsLast = [op |-> "none", err |-> Nil]
    /\ noiseCalls = 0
    /\ GorIdle
    /\ ValIdle

NextNoise ==
    \/ CallCreateInitiatorMessage
    \/ \E message \in NoiseMessages(hs) : CallProcessInitiatorMessage(message)
    \/ CallCreateResponderMessage
    \/ \E message \in NoiseMessages(hs) : CallProcessResponderMessage(message)
    \/ CallDeriveTransportKeys

SpecNoise == InitNoise /\ [][NextNoise]_vars

\* C32: a method returns nil only in the state it is valid for: the
\* initiator's methods only on an initiator and the responder's only on a
\* responder, CreateResponderMessage only after ProcessInitiatorMessage has
\* returned nil, and DeriveTransportKeys only after the peer's message has
\* been processed with nil.
C32_MethodsOnlyInTheirState ==
    /\ hs.initiator =>
         hsDone \cap {"ProcessInitiatorMessage", "CreateResponderMessage"} = {}
    /\ ~hs.initiator =>
         hsDone \cap {"CreateInitiatorMessage", "ProcessResponderMessage"} = {}
    /\ "CreateResponderMessage" \in hsDone => "ProcessInitiatorMessage" \in hsDone
    /\ "DeriveTransportKeys" \in hsDone =>
         hsDone \cap {"ProcessInitiatorMessage", "ProcessResponderMessage"} # {}

(***************************************************************************)
(* SpecGoroutines: the relay's goroutines on one pair and the three locks. *)
(***************************************************************************)
InitGoroutines ==
    /\ SessionIdle /\ FsIdle /\ TunIdle /\ RelIdle /\ AeadIdle /\ AppIdle

NextGoroutines ==
    \/ \E exists \in BOOLEAN : JoinGetSession(exists)
    \/ JoinLock
    \/ JoinInstall
    \/ JoinUpdateActivity
    \/ \E f \in Forwarders, ok \in BOOLEAN : ForwardRead(f, ok)
    \/ \E f \in Forwarders : ForwardRLock(f)
    \/ \E f \in Forwarders : ForwardRUnlock(f)
    \/ \E f \in Forwarders : ForwardPairLock(f)
    \/ \E f \in Forwarders : ForwardSelect(f)
    \/ \E f \in Forwarders : ForwardWrite(f)
    \/ \E f \in Forwarders, ok \in BOOLEAN : ForwardWritten(f, ok)
    \/ \E f \in Forwarders : ForwardUpdateActivity(f)
    \/ \E f \in Forwarders : ForwardClose(f)
    \/ \E f \in Forwarders : CleanupLock(f)
    \/ \E f \in Forwarders : CleanupClear(f)
    \/ PingWrite
    \/ \E ok \in BOOLEAN : PingWritten(ok)
    \/ \E t \in Threads : ContextDone(t)
    \/ MonitorLock
    \/ \E stale \in BOOLEAN : MonitorScan(stale)
    \/ SweepLock
    \/ SweepUnlock
    \/ ShutdownCancel
    \/ ShutdownLock
    \/ ShutdownCloseAll

SpecGoroutines == InitGoroutines /\ [][NextGoroutines]_vars

\* A goroutine is about to read / to write an endpoint handle of the pair.
ReadsHandle(t) ==
    \/ t \in Forwarders /\ gpc[t] = "select"
    \/ t = "mon" /\ gpc[t] = "scan"
    \/ t = "down" /\ gpc[t] = "closeAll"
WritesHandle(t) ==
    \/ t = "join" /\ gpc[t] = "install"
    \/ t \in Forwarders /\ gpc[t] = "clear"

\* C35: a goroutine reads or writes an endpoint handle of the pair only
\* with pair.mu held, so no handle is written while another goroutine
\* reads or writes the handles.
C35_HandlesUnderPairMutex ==
    /\ \A t \in Threads : (ReadsHandle(t) \/ WritesHandle(t)) => pairmu = t
    /\ \A t, u \in Threads :
         (t # u /\ WritesHandle(t)) => ~(ReadsHandle(u) \/ WritesHandle(u))

\* The connection a goroutine is in the middle of a WriteMessage on.
WritingTo(t) ==
    IF gpc[t] # "inWrite" THEN "none"
    ELSE IF t = "fwdS" THEN "Receiver" ELSE "Sharer"

\* C36: no two goroutines are inside WriteMessage on the same connection.
C36_WritesSerialized ==
    \A t, u \in Threads :
        (t # u /\ WritingTo(t) # "none") => WritingTo(t) # WritingTo(u)

\* The locks a goroutine holds, and whether it is at a Lock or RLock call.
Held(t) ==
    {"rs.mu" : x \in {1} \cap (IF rsmu.w = t \/ t \in rsmu.r THEN {1} ELSE {})}
    \cup {"pair.mu" : x \in {1} \cap (IF pairmu = t THEN {1} ELSE {})}
    \cup {"sm.mu" : x \in {1} \cap (IF smmu.w = t \/ t \in smmu.r THEN {1} ELSE {})}
Waits(t) ==
    \/ t = "join" /\ gpc[t] \in {"start", "wantTable", "touch"}
    \/ t \in Forwarders /\ gpc[t] \in {"lookup", "wantPair", "touch", "wantTable"}
    \/ t \in {"mon", "sweep"} /\ gpc[t] = "idle"
    \/ t = "down" /\ gpc[t] = "wantTable"

\* C40: a goroutine that is at a Lock call holds none of the three locks,
\* so whoever holds the lock it waits for is not waiting itself.
C40_NoLockHeldWhileWaiting ==
    /\ \A t \in Threads : Waits(t) => Held(t) = {}
    /\ \A t, u \in Threads : (Waits(t) /\ Held(u) # {}) => ~Waits(u)

\* The cleanup of the receiver's forwarder waits for the table lock that
\* the monitor holds, the sharer's forwarder holds pair.mu inside a write,
\* and the sweeper holds sm.mu.
C40_Witness ==
    /\ gpc["fwdR"] = "wantTable" /\ rsmu.w = "mon"
    /\ gpc["fwdS"] = "inWrite" /\ pairmu = "fwdS"
    /\ smmu.w = "sweep"

(***************************************************************************)
(* SpecValidate: two goroutines calling ValidatePasscode and               *)
(* UpdateActivity on a manager that holds one session.                     *)
(***************************************************************************)
InitValidate ==
    /\ \E pc \in GenPasscodes :
         sessions = CreateSessionMap(<< >>, "7F9Q2A", pc, 0)
    /\ now = 0
    /\ swept = TRUE
    /\ lastCall = NoCall
    /\ wrongRun = [k \in SessionIDs |-> 0]
    /\ FsIdle /\ TunIdle /\ RelIdle /\ AeadIdle /\ AppIdle

NextValidate ==
    \/ \E g \in Goroutines, id \in AllIDs, pc \in InputPasscodes : ValidateEnter(g, id, pc)
    \/ \E g \in Goroutines : ValidateLock(g)
    \/ \E g \in Goroutines : ValidateBody(g)
    \/ \E g \in Goroutines, remaining \in BOOLEAN : ValidateDeferred(g, remaining)
    \/ \E g \in Goroutines : ValidateWake(g)
    \/ \E g \in Goroutines : ValidateReturn(g)
    \/ \E g \in Goroutines, id \in AllIDs : ActivityLock(g, id)
    \/ \E g \in Goroutines : ActivityUnlock(g)

SpecValidate == InitValidate /\ [][NextValidate]_vars

\* C39: a goroutine in the padding sleep of ValidatePasscode does not hold
\* sm.mu, and sm.mu.Unlock is no longer among its deferred functions.
C39_SleepsWithoutLock ==
    \A g \in Goroutines :
        vpc[g] = "sleeping" => (vmu # g /\ deferred[g] = << >>)

\* One goroutine sleeps out its padding while the other holds sm.mu inside
\* its own call of ValidatePasscode.
C39_Witness ==
    \E g, h \in Goroutines :
        /\ vpc[g] = "sleeping"
        /\ vpc[h] = "body" /\ vmu = h

(***************************************************************************)
(* Claims about the session manager (SpecSession)                          *)
(***************************************************************************)

IsValidate(c, id) == c.op = "ValidatePasscode" /\ c.id = id

\* C7: once 5 wrong-passcode calls in a row have been made on a session, every
\* later ValidatePasscode call on it, whatever the passcode, returns the
\* locked error for as long as the manager holds the session; a call returns
\* locked only when the run of wrong calls has reached 5, and a successful
\* call (made before the 5th wrong one) sets the counter back to 0.
C7_LockAfterFiveWrong ==
    [][\A id \in DOMAIN sessions :
          IsValidate(lastCall', id) =>
            /\ wrongRun[id] >= MaxFailedAttempts => lastCall'.err = ErrLocked
            /\ lastCall'.err = ErrLocked =>
                  id \in DOMAIN sessions' /\ wrongRun'[id] = MaxFailedAttempts
            /\ lastCall'.err = Nil =>
                  /\ wrongRun[id] < MaxFailedAttempts
                  /\ sessions'[id].FailedAttempts = 0
                  /\ wrongRun'[id] = 0]_vars

\* A call with the right passcode on a session that 5 wrong calls have locked
\* has just returned the locked error.
C7_Witness ==
    /\ lastCall.op = "ValidatePasscode"
    /\ lastCall.id \in DOMAIN sessions
    /\ lastCall.pc = sessions[lastCall.id].Passcode
    /\ wrongRun[lastCall.id] = MaxFailedAttempts
    /\ lastCall.err = ErrLocked

SessionInv(s) ==
    /\ s.FailedAttempts \in 0..MaxFailedAttempts
    /\ s.Locked <=> s.FailedAttempts >= MaxFailedAttempts

\* C8: FailedAttempts stays within 0..5; it changes only by +1 in a
\* ValidatePasscode call with a wrong passcode or to 0 in a successful one;
\* Locked holds exactly when FailedAttempts has reached 5; and a locked
\* session stays locked for as long as the manager holds it.
C8_CounterAndLatch ==
    [][/\ \A id \in DOMAIN sessions : SessionInv(sessions[id])
       /\ \A id \in DOMAIN sessions' : SessionInv(sessions'[id])
       /\ \A id \in DOMAIN sessions \cap DOMAIN sessions' :
            LET s == sessions[id]  t == sessions'[id] IN
            /\ s.Locked => t.Locked
            /\ t.FailedAttempts # s.FailedAttempts =>
                  /\ IsValidate(lastCall', id)
                  /\ \/ /\ t.FailedAttempts = s.FailedAttempts + 1
                        /\ lastCall'.pc # s.Passcode
                        /\ lastCall'.err \in {ErrAuth, ErrLocked}
                     \/ /\ t.FailedAttempts = 0
                        /\ lastCall'.pc = s.Passcode
                        /\ lastCall'.err = Nil]_vars

\* A session that the 5th wrong call has locked is still held and locked
\* after later activity and a later sweep.
C8_Witness ==
    /\ lastCall.op = "cleanupExpired"
    /\ \E id \in DOMAIN sessions :
          /\ sessions[id].Locked
          /\ sessions[id].FailedAttempts = MaxFailedAttempts
          /\ sessions[id].LastActivity > sessions[id].Created

\* C9 (as claimed): every failure ValidatePasscode reports, other than the
\* locked one, is the one generic "authentication failed" error, so unknown
\* id, expired session and wrong passcode look the same to the caller.
C9_GenericFailure ==
    lastCall.op = "ValidatePasscode" /\ lastCall.err \notin {Nil, ErrLocked}
        => lastCall.err = ErrAuth

\* C10: after a run of the sweeper the manager holds no session created more
\* than 24 h ago or idle for more than 30 min, and every session that was
\* neither is still held, unchanged.
C10_SweepRemovesExactlyExpired ==
    [][lastCall'.op = "cleanupExpired" =>
         /\ \A id \in DOMAIN sessions' :
               /\ now' - sessions'[id].Created <= SessionTimeout
               /\ now' - sessions'[id].LastActivity <= IdleTimeout
         /\ \A id \in DOMAIN sessions :
               (/\ now - sessions[id].Created <= SessionTimeout
                /\ now - sessions[id].LastActivity <= IdleTimeout)
                 => id \in DOMAIN sessions' /\ sessions'[id] = sessions[id]]_vars

\* The sweeper has just removed a session that was active within the last
\* 30 minutes but created more than 24 h ago.
C10_Witness ==
    /\ lastCall.op = "cleanupExpired"
    /\ \E s \in lastCall.removed :
          /\ now - s.Created > SessionTimeout
          /\ now - s.LastActivity <= IdleTimeout

====
